---------------------------- MODULE Spec2Model ----------------------------
(***************************************************************************)
(* Model of the PowerMeter sketch (PowerMeter.ino): the display state      *)
(* machine with its button decoder and its eleven settings pages, the      *)
(* EEPROM image, and the 2 ms timer service with the loop() hand-off.      *)
(*                                                                         *)
(* float fields of settings_t are modelled in fixed point, Scale units per *)
(* 1.0: every step the pages apply is a whole number of units because      *)
(* ButtonPressTime is a multiple of 50.  Rounding of the 32-bit float is   *)
(* not modelled, nor are NaN records.                                      *)
(***************************************************************************)
EXTENDS Integers, FiniteSets, Sequences, TLC

VARIABLES
    pc,                 \* "setup" before setup() ran, then "poll" / "display": position in loop()
    Eeprom,             \* the settings_t image held in EEPROM at address 0
    Settings,           \* struct settings_t Settings
    DisplayState,       \* static state_t DisplayState in DisplayMachine
    ModeIndex,          \* static int ModeIndex in DisplayMachine
    ButtonPressed,      \* enum button_t ButtonPressed
    ButtonPressTime,    \* static int ButtonPressTime
    oldkey,             \* static int oldkey in ReadButton
    fAdcUpCoef,         \* volatile float fAdcUpCoef, as the fraction num/den
    fAdcDecayCoef,      \* volatile float fAdcDecayCoef, as the fraction num/den
    DisplayTimeCounter, \* static int DisplayTimeCounter in TimedService
    DisplayFlag,        \* boolean DisplayFlag
    millis,             \* the Arduino millisecond clock
    PwrFwd,             \* struct analog_t PwrFwd: iAdc, iAdcAvg, fVoltsAvg, fWatts
    PwrRev,             \* struct analog_t PwrRev: iAdc, iAdcAvg, fVoltsAvg, fWatts
    IntEnabled,         \* the global interrupt enable: FALSE between noInterrupts() and interrupts()
    iAdcLocalAvg,       \* volatile int iAdcLocalAvg in CalculatePower
    nStep,              \* changes of the raw forward sample so far (bounded by MaxSteps)
    EepromWrites,       \* eeprom_write_block calls made by the last run of DisplayMachine
    Called,             \* what the last run of DisplayMachine dispatched to
    Uses,               \* the <<field, value>> reads of Settings made by the last operation
    TicksSinceFlag,     \* TimedService runs since DisplayFlag was last raised
    nAdjust,            \* Control-mode ticks with Up or Down applied so far (bounded by MaxAdjust)
    OffsetVolt,         \* float OffsetVoltFwd, OffsetVoltRev, in mV
    nRaise,             \* times TimedService set DisplayFlag so far
    nRun,               \* runs of DisplayMachine that loop() made so far
    AdcSeen,            \* analog levels recorded by the specifications that observe them
    Bar,                \* the last call of drawbar and the cells it wrote to the LCD
    CoefWrite,          \* an assignment to a filter coefficient, byte by byte
    CoefUsed,           \* the coefficient bytes the last filter tick read, and those before and after the assignment
    Twin,               \* the channels and Settings of a second run, for comparison
    Smooth              \* DisplayNow and DisplayTime of the two channels, and the Watts definition linked

vars == << pc, Eeprom, Settings, DisplayState, ModeIndex, ButtonPressed,
           ButtonPressTime, oldkey, fAdcUpCoef, fAdcDecayCoef,
           DisplayTimeCounter, DisplayFlag, millis, PwrFwd, PwrRev,
           EepromWrites, Called, Uses, TicksSinceFlag, nAdjust,
           IntEnabled, iAdcLocalAvg, nStep, OffsetVolt, nRaise, nRun, AdcSeen,
           Bar, CoefWrite, CoefUsed, Twin, Smooth >>

menuVars == << Settings, DisplayState, ModeIndex, ButtonPressed, ButtonPressTime,
               oldkey, fAdcUpCoef, fAdcDecayCoef, Eeprom, EepromWrites, Called, Uses,
               nAdjust >>

isrVars == << DisplayTimeCounter, DisplayFlag, millis, PwrFwd, PwrRev, TicksSinceFlag >>

calcVars == << IntEnabled, iAdcLocalAvg, nStep >>

auxVars == << CoefWrite, CoefUsed, Twin, Smooth >>

ioVars == << OffsetVolt, nRaise, nRun, AdcSeen, Bar, auxVars >>

\* No assignment to a coefficient is under way; no second run is followed.
NoCoefWrite == [ target |-> "none", old |-> 0, new |-> 0, stored |-> 0, order |-> "up" ]
NoCoefUsed == [ bits |-> 0, old |-> 0, new |-> 0 ]
NoTwin == [ differs |-> "none" ]

(***************************************************************************)
(* Bounds of the model.                                                    *)
(***************************************************************************)
\* Display ticks a button is held beyond its leading-edge tick (in the idle
\* environment no button may stay unpressed for any time).
MaxHoldTicks == 2
\* Consecutive Control-mode ticks with Up or Down the user applies in one run.
MaxAdjust == 3
\* Milliseconds of timer service explored after setup().
MaxRunMs == 220
\* Changes of the raw input applied to the filter in one run.
MaxSteps == 2
\* Filter ticks explored against an assignment to a coefficient.
MaxCoefTicks == 2

(***************************************************************************)
(* Program constants.                                                      *)
(***************************************************************************)
Scale == 200
TimeBetweenInterrupts == 2
TimeBetweenDisplayUpdates == 50
ButtonPressTimeMax == 5000
ControlTimeout == 5000
ModeIndexMin == 0
ModeIndexMax == 10
NUM_KEYS == 5
StartupDelay == 3000

NoButton     == "NoButton"
SelectButton == "SelectButton"
LeftButton   == "LeftButton"
RightButton  == "RightButton"
UpButton     == "UpButton"
DownButton   == "DownButton"

PowerMode   == "PowerMode"
ControlMode == "ControlMode"

\* Pages, in the order of the fControl table.
FwdMode           == 0
RevMode           == 1
MeterMode         == 2
BacklightMode     == 3
FwdLimitMode      == 4
RevLimitMode      == 5
MeterTypeMode     == 6
MeterScaleFwdMode == 7
MeterScaleRevMode == 8
MeterAvgTcMode    == 9
MeterDecayTcMode  == 10

Fields == { "CouplerGainFwdDB", "CouplerGainRevDB", "BacklightLevel", "LimitRev",
            "LimitFwd", "MeterModeIndex", "MeterTypeIndex", "MeterScaleFwd",
            "MeterScaleRev", "MeterAvgTc", "MeterDecayTc" }

\* The field a page edits.
PageField(p) ==
    CASE p = FwdMode           -> "CouplerGainFwdDB"
      [] p = RevMode           -> "CouplerGainRevDB"
      [] p = MeterMode         -> "MeterModeIndex"
      [] p = BacklightMode     -> "BacklightLevel"
      [] p = FwdLimitMode      -> "LimitFwd"
      [] p = RevLimitMode      -> "LimitRev"
      [] p = MeterTypeMode     -> "MeterTypeIndex"
      [] p = MeterScaleFwdMode -> "MeterScaleFwd"
      [] p = MeterScaleRevMode -> "MeterScaleRev"
      [] p = MeterAvgTcMode    -> "MeterAvgTc"
      [] p = MeterDecayTcMode  -> "MeterDecayTc"

\* The Min constant each page declares (indices are plain integers).
FieldMin(f) ==
    CASE f = "CouplerGainFwdDB" -> (-60) * Scale
      [] f = "CouplerGainRevDB" -> (-60) * Scale
      [] f = "BacklightLevel"   -> 0
      [] f = "LimitFwd"         -> 10 * Scale
      [] f = "LimitRev"         -> 10 * Scale
      [] f = "MeterModeIndex"   -> 0
      [] f = "MeterTypeIndex"   -> 0
      [] f = "MeterScaleFwd"    -> 1 * Scale
      [] f = "MeterScaleRev"    -> 1 * Scale
      [] f = "MeterAvgTc"       -> 1 * Scale
      [] f = "MeterDecayTc"     -> 1 * Scale

\* The Max constant each page declares.
FieldMax(f) ==
    CASE f = "CouplerGainFwdDB" -> (-10) * Scale
      [] f = "CouplerGainRevDB" -> (-10) * Scale
      [] f = "BacklightLevel"   -> 100 * Scale
      [] f = "LimitFwd"         -> 1500 * Scale
      [] f = "LimitRev"         -> 300 * Scale
      [] f = "MeterModeIndex"   -> 3
      [] f = "MeterTypeIndex"   -> 2
      [] f = "MeterScaleFwd"    -> 5000 * Scale
      [] f = "MeterScaleRev"    -> 5000 * Scale
      [] f = "MeterAvgTc"       -> 2000 * Scale
      [] f = "MeterDecayTc"     -> 2000 * Scale

InRange(f, v) == FieldMin(f) <= v /\ v <= FieldMax(f)

(***************************************************************************)
(* EEPROM images the model starts from: one with every field in range, one *)
(* with BacklightLevel above its range and MeterScaleFwd below its range.  *)
(***************************************************************************)
GoodRecord ==
    [ CouplerGainFwdDB |-> (-40) * Scale, CouplerGainRevDB |-> (-30) * Scale,
      BacklightLevel   |-> 100 * Scale,   LimitRev         |-> 100 * Scale,
      LimitFwd         |-> 1000 * Scale,  MeterModeIndex   |-> 3,
      MeterTypeIndex   |-> 2,             MeterScaleFwd    |-> 1000 * Scale,
      MeterScaleRev    |-> 100 * Scale,   MeterAvgTc       |-> 2 * Scale,
      MeterDecayTc     |-> 1000 * Scale ]

CorruptRecord ==
    [ CouplerGainFwdDB |-> (-40) * Scale, CouplerGainRevDB |-> (-30) * Scale,
      BacklightLevel   |-> 200 * Scale,   LimitRev         |-> 100 * Scale,
      LimitFwd         |-> 1000 * Scale,  MeterModeIndex   |-> 3,
      MeterTypeIndex   |-> 2,             MeterScaleFwd    |-> 0,
      MeterScaleRev    |-> 100 * Scale,   MeterAvgTc       |-> 2 * Scale,
      MeterDecayTc     |-> 1000 * Scale ]

Records == { GoodRecord, CorruptRecord }

\* Readings of the button ladder on analog pin 0, one per band.
KeyReadings == { 25, 125, 300, 500, 700, 900 }

\* Readings of the detector pins.
AdcReadings == { 0, 512, 1023 }

\* The analog inputs: pin 0 carries the button ladder, PwrFwd.Pin = A1 and
\* PwrRev.Pin = A2 the two detectors.
ButtonPin == 0
FwdPin == 1
RevPin == 2
AnalogPins == { ButtonPin, FwdPin, RevPin }

\* The levels the three pins may stand at while setup() runs.
StartupPins ==
    { [ p \in AnalogPins |-> IF p = ButtonPin THEN 900 ELSE IF p = FwdPin THEN f ELSE r ] :
        f \in AdcReadings, r \in AdcReadings }

(***************************************************************************)
(* ReadButton                                                              *)
(***************************************************************************)
adc_key_val == << 50, 200, 400, 600, 800 >>

\* The for loop of ReadButton: the first key whose threshold exceeds the
\* reading, or NUM_KEYS when the loop runs out (the test inside the loop
\* that would set -1 is never true there).
RECURSIVE KeyLoop(_, _)
KeyLoop(adc_key_in, key) ==
    IF key < NUM_KEYS
      THEN IF adc_key_in < adc_key_val[key + 1]
             THEN key
             ELSE KeyLoop(adc_key_in, key + 1)
      ELSE key

DecodeKey(adc_key_in) == KeyLoop(adc_key_in, 0)

\* Variant: the cases of Up and Down are exchanged.
ButtonOfKey_Swapped(key) ==
    CASE key = 0 -> RightButton
      [] key = 1 -> DownButton
      [] key = 2 -> UpButton
      [] key = 3 -> LeftButton
      [] key = 4 -> SelectButton
      [] OTHER   -> NoButton

\* switch (key) of ReadButton, after the default ButtonPressed = NoButton.
ButtonOfKey(key) ==
    CASE key = 0 -> RightButton
      [] key = 1 -> UpButton
      [] key = 2 -> DownButton
      [] key = 3 -> LeftButton
      [] key = 4 -> SelectButton
      [] OTHER   -> NoButton

\* Variant: the press time is not limited to ButtonPressTimeMax.
HeldTime_NoLimit(t) == t + TimeBetweenDisplayUpdates

\* ButtonPressTime after a tick on which the key did not change.
HeldTime(t) ==
    IF t + TimeBetweenDisplayUpdates > ButtonPressTimeMax
      THEN ButtonPressTimeMax
      ELSE t + TimeBetweenDisplayUpdates

\* The whole of ReadButton: the new oldkey, ButtonPressed and ButtonPressTime.
ReadButton(adc_key_in) ==
    LET key == DecodeKey(adc_key_in) IN
    IF key # oldkey
      THEN [ oldkey |-> key, pressed |-> ButtonOfKey(key), time |-> 0 ]
      ELSE [ oldkey |-> oldkey, pressed |-> ButtonPressed,
             time |-> HeldTime(ButtonPressTime) ]

(***************************************************************************)
(* The settings pages                                                      *)
(***************************************************************************)
\* Variant: Min and Max are exchanged in the two tests.
RangeCheck_Exchanged(v, lo, hi) ==
    LET a == IF v < hi THEN hi ELSE v IN
    IF a > lo THEN lo ELSE a

\* "Check range": below Min becomes Min, then above Max becomes Max.
RangeCheck(v, lo, hi) ==
    LET a == IF v < lo THEN lo ELSE v IN
    IF a > hi THEN hi ELSE a

\* The range check of MeterTypeControl: above Max becomes Min, then below
\* Min becomes Max.
WrapCheck(v, lo, hi) ==
    LET a == IF v > hi THEN lo ELSE v IN
    IF a < lo THEN hi ELSE a

\* switch (ButtonPressed) of a page: Up adds, Down subtracts, the rest break.
UpDown(v, b, step) ==
    IF b = UpButton THEN v + step
    ELSE IF b = DownButton THEN v - step
    ELSE v

\* coef * .001 * ButtonPressTime in units, coef given in tenths.
HoldStep(tenths, t) == (tenths * t * Scale) \div 10000

FwdCalControl(S, b, t) ==
    [ S EXCEPT !.CouplerGainFwdDB =
        UpDown(RangeCheck(@, FieldMin("CouplerGainFwdDB"), FieldMax("CouplerGainFwdDB")),
               b, HoldStep(1, t)) ]

RevCalControl(S, b, t) ==
    [ S EXCEPT !.CouplerGainRevDB =
        UpDown(RangeCheck(@, FieldMin("CouplerGainRevDB"), FieldMax("CouplerGainRevDB")),
               b, HoldStep(1, t)) ]

BacklightControl(S, b, t) ==
    [ S EXCEPT !.BacklightLevel =
        UpDown(RangeCheck(@, FieldMin("BacklightLevel"), FieldMax("BacklightLevel")),
               b, HoldStep(10, t)) ]

FwdLimitControl(S, b, t) ==
    [ S EXCEPT !.LimitFwd =
        UpDown(RangeCheck(@, FieldMin("LimitFwd"), FieldMax("LimitFwd")),
               b, HoldStep(10, t)) ]

RevLimitControl(S, b, t) ==
    [ S EXCEPT !.LimitRev =
        UpDown(RangeCheck(@, FieldMin("LimitRev"), FieldMax("LimitRev")),
               b, HoldStep(10, t)) ]

MeterModeControl(S, b, t) ==
    [ S EXCEPT !.MeterModeIndex =
        LET c == RangeCheck(@, FieldMin("MeterModeIndex"), FieldMax("MeterModeIndex")) IN
        IF t = 0 THEN UpDown(c, b, 1) ELSE c ]

MeterTypeControl(S, b, t) ==
    [ S EXCEPT !.MeterTypeIndex =
        LET c == WrapCheck(@, FieldMin("MeterTypeIndex"), FieldMax("MeterTypeIndex")) IN
        IF t = 0 THEN UpDown(c, b, 1) ELSE c ]

MeterScaleFwdControl(S, b, t) ==
    [ S EXCEPT !.MeterScaleFwd =
        UpDown(RangeCheck(@, FieldMin("MeterScaleFwd"), FieldMax("MeterScaleFwd")),
               b, HoldStep(10, t)) ]

\* Variant: the reverse scale steps at the rate of the forward scale.
MeterScaleRevControl_Rate(S, b, t) ==
    [ S EXCEPT !.MeterScaleRev =
        UpDown(RangeCheck(@, FieldMin("MeterScaleRev"), FieldMax("MeterScaleRev")),
               b, HoldStep(10, t)) ]

MeterScaleRevControl(S, b, t) ==
    [ S EXCEPT !.MeterScaleRev =
        UpDown(RangeCheck(@, FieldMin("MeterScaleRev"), FieldMax("MeterScaleRev")),
               b, HoldStep(20, t)) ]

MeterAvgTcControl(S, b, t) ==
    [ S EXCEPT !.MeterAvgTc =
        UpDown(RangeCheck(@, FieldMin("MeterAvgTc"), FieldMax("MeterAvgTc")),
               b, IF t = 0 THEN 1 * Scale ELSE HoldStep(10, t)) ]

MeterDecayTcControl(S, b, t) ==
    [ S EXCEPT !.MeterDecayTc =
        UpDown(RangeCheck(@, FieldMin("MeterDecayTc"), FieldMax("MeterDecayTc")),
               b, IF t = 0 THEN 1 * Scale ELSE HoldStep(10, t)) ]

\* (*fControl[ModeIndex])(ButtonPressed, ButtonPressTime): the Settings it leaves.
\* The table has the eleven entries 0..10; a call through an index outside it
\* is undefined and is given no effect on Settings here.
fControl(p, S, b, t) ==
    CASE p = FwdMode           -> FwdCalControl(S, b, t)
      [] p = RevMode           -> RevCalControl(S, b, t)
      [] p = MeterMode         -> MeterModeControl(S, b, t)
      [] p = BacklightMode     -> BacklightControl(S, b, t)
      [] p = FwdLimitMode      -> FwdLimitControl(S, b, t)
      [] p = RevLimitMode      -> RevLimitControl(S, b, t)
      [] p = MeterTypeMode     -> MeterTypeControl(S, b, t)
      [] p = MeterScaleFwdMode -> MeterScaleFwdControl(S, b, t)
      [] p = MeterScaleRevMode -> MeterScaleRevControl(S, b, t)
      [] p = MeterAvgTcMode    -> MeterAvgTcControl(S, b, t)
      [] p = MeterDecayTcMode  -> MeterDecayTcControl(S, b, t)
      [] OTHER                 -> S

\* 1.0 / (tc / (float) TimeBetweenInterrupts), kept as a fraction.
Coef(tc) == [ num |-> TimeBetweenInterrupts * Scale, den |-> tc ]

Reads(S, fs) == { << f, S[f] >> : f \in fs }

\* Settings fields CalculatePower passes to Watts.
CalculatePowerUses(S) == Reads(S, { "CouplerGainFwdDB", "CouplerGainRevDB" })

\* Settings reads of a page after its switch: the field it shows or drives, and
\* on the two coupler pages those of CalculatePower.
ControlUses(p, S) ==
    IF p \in FwdMode..MeterDecayTcMode
      THEN Reads(S, { PageField(p) })
             \cup (IF p \in { FwdMode, RevMode } THEN CalculatePowerUses(S) ELSE {})
      ELSE {}

\* Settings reads of ProcessPowerDisplay: DisplayPower (CalculatePower, the two
\* bar scales) and DisplayLED (the two limits).
ProcessPowerDisplayUses(S) ==
    CalculatePowerUses(S)
      \cup Reads(S, { "MeterScaleFwd", "MeterScaleRev", "LimitFwd", "LimitRev" })

\* Settings reads of setup: the backlight duty and the two filter coefficients.
SetupUses(S) == Reads(S, { "BacklightLevel", "MeterAvgTc", "MeterDecayTc" })

(***************************************************************************)
(* Watts and CalculatePower                                                *)
(*                                                                         *)
(* Voltages are whole millivolts, the curve fit's Vinpp is in units of     *)
(* 1e-5 V and power is in whole milliwatts; every division truncates, as   *)
(* the stages of the float evaluation round.  pow(10, -dB/10) is taken at  *)
(* whole tens of dB, which is where the specifications below keep the two  *)
(* coupler gains.                                                          *)
(***************************************************************************)
AdcMaxCount == 1023
AdcMaxMilliVolts == 5000
\* OffsetVoltFwd and OffsetVoltRev as setup leaves them (the debug override).
OffsetMilliVolts == 600
KneeMilliVolts == 421

\* fCal * iAdcLocalAvg, with fCal = 1.0 / AdcMaxCount * AdcMaxVolts.
VoltsOfCount(n) == (AdcMaxMilliVolts * n) \div AdcMaxCount

\* Variant: the constant term of the high fit is off by 0.1 V.
VinppHigh_Shifted(v) ==
    ((((36838 * v) \div 10000) + 173936) * v) \div 1000 - 48440

\* 0.036838*pow(V,2) + 1.739364*V + -0.384399
VinppHigh(v) ==
    ((((36838 * v) \div 10000) + 173936) * v) \div 1000 - 38440

\* 7.346069*pow(V,3) + -3.656032*pow(V,2) + 1.032727*V + 0.017345
VinppLow(v) ==
    LET s1 == ((734607 * v) \div 1000) - 365603
        s2 == ((s1 * v) \div 1000) + 103273
    IN ((s2 * v) \div 1000) + 1735

RECURSIVE Pow10(_)
Pow10(k) == IF k <= 0 THEN 1 ELSE 10 * Pow10(k - 1)

\* Gain_coupler * pow(Vinpp/2.818, 2)/50 in milliwatts, Gain_coupler being
\* 10 to the power -dB/10.
WattsOfVinpp(dB, vinpp) ==
    LET k == (0 - dB) \div (10 * Scale)
        q == (vinpp * 100) \div 2818
        w == (q * q) \div 50
    IN IF k <= 5 THEN w \div Pow10(5 - k) ELSE w * Pow10(k - 5)

\* The part the two definitions of Watts share: the floor at 0, the choice of
\* the fit at the knee, and the conversion to power.
CurveFit(dB, v) ==
    LET V == IF v < 0 THEN 0 ELSE v IN
    WattsOfVinpp(dB, IF V >= KneeMilliVolts THEN VinppHigh(V) ELSE VinppLow(V))

\* Watts.cpp holds two definitions of Watts(dB_coupler, Vol, V): the first
\* subtracts Vol from its third argument, the second does not use Vol.
WattsDefs == { 1, 2 }

Watts(d, dB, Vol, V) ==
    IF d = 1 THEN CurveFit(dB, V - Vol) ELSE CurveFit(dB, V)

\* fVoltsAvg and fWatts of a channel as CalculatePower computes them from the
\* snapshot; fWatts maps each definition of Watts to the value it returns.
CalculateChannel(dB, Vol, snapshot) ==
    LET volts == VoltsOfCount(snapshot) IN
    [ fVoltsAvg |-> volts,
      fWatts |-> [ d \in WattsDefs |-> Watts(d, dB, Vol, volts - Vol) ] ]

(***************************************************************************)
(* DisplayMachine                                                          *)
(***************************************************************************)
\* The parts of ControlModeStep, for the variants below.
\* Variant: the timeout also stores Settings.
ControlNoButton_Saves(t, idx) ==
    [ state |-> IF t = ControlTimeout THEN PowerMode ELSE ControlMode,
      index |-> idx, write |-> (t = ControlTimeout) ]

ControlNoButton(t, idx) ==
    [ state |-> IF t = ControlTimeout THEN PowerMode ELSE ControlMode,
      index |-> idx, write |-> FALSE ]

\* Variant: Select leaves ControlMode while held, not only on its leading edge.
ControlSelect_Held(t, idx) ==
    [ state |-> PowerMode, index |-> idx, write |-> (t = 0) ]

ControlSelect(t, idx) ==
    [ state |-> IF t = 0 THEN PowerMode ELSE ControlMode,
      index |-> idx, write |-> (t = 0) ]

\* Variant: Left moves a page on every tick it is held.
ControlLeft_Repeats(t, idx) ==
    [ state |-> ControlMode,
      index |-> IF idx > ModeIndexMin THEN idx - 1 ELSE ModeIndexMax,
      write |-> FALSE ]

ControlLeft(t, idx) ==
    [ state |-> ControlMode,
      index |-> IF t = 0
                  THEN (IF idx > ModeIndexMin THEN idx - 1 ELSE ModeIndexMax)
                  ELSE idx,
      write |-> FALSE ]

\* Variant: Right steps to the next index without the test against ModeIndexMax.
ControlRight_NoWrap(t, idx) ==
    [ state |-> ControlMode,
      index |-> IF t = 0 THEN idx + 1 ELSE idx,
      write |-> FALSE ]

ControlRight(t, idx) ==
    [ state |-> ControlMode,
      index |-> IF t = 0
                  THEN (IF idx < ModeIndexMax THEN idx + 1 ELSE ModeIndexMin)
                  ELSE idx,
      write |-> FALSE ]

ControlUpDown(t, idx) == [ state |-> ControlMode, index |-> idx, write |-> FALSE ]

\* Variant: the Select exit forgets the EEPROM write.
ControlModeStep_NoWrite(b, t, idx) ==
    CASE b = NoButton     -> ControlNoButton(t, idx)
      [] b = SelectButton -> [ ControlSelect(t, idx) EXCEPT !.write = FALSE ]
      [] b = LeftButton   -> ControlLeft(t, idx)
      [] b = RightButton  -> ControlRight(t, idx)
      [] OTHER            -> ControlUpDown(t, idx)

\* Variant: the write is deferred by one held tick, as a commit countdown would.
ControlModeStep_Deferred(b, t, idx) ==
    CASE b = NoButton     -> ControlNoButton(t, idx)
      [] b = SelectButton ->
           [ state |-> IF t = TimeBetweenDisplayUpdates THEN PowerMode ELSE ControlMode,
             index |-> idx, write |-> (t = TimeBetweenDisplayUpdates) ]
      [] b = LeftButton   -> ControlLeft(t, idx)
      [] b = RightButton  -> ControlRight(t, idx)
      [] OTHER            -> ControlUpDown(t, idx)

\* Variant: the timeout test is t > ControlTimeout, which the saturated
\* ButtonPressTime never satisfies.
ControlModeStep_NoTimeout(b, t, idx) ==
    CASE b = NoButton     ->
           [ ControlNoButton(t, idx) EXCEPT
               !.state = IF t > ControlTimeout THEN PowerMode ELSE ControlMode ]
      [] b = SelectButton -> ControlSelect(t, idx)
      [] b = LeftButton   -> ControlLeft(t, idx)
      [] b = RightButton  -> ControlRight(t, idx)
      [] OTHER            -> ControlUpDown(t, idx)

\* Variant: every Up or Down tick saves the record.
ControlModeStep_SaveOnEdit(b, t, idx) ==
    CASE b = NoButton     -> ControlNoButton(t, idx)
      [] b = SelectButton -> ControlSelect(t, idx)
      [] b = LeftButton   -> ControlLeft(t, idx)
      [] b = RightButton  -> ControlRight(t, idx)
      [] OTHER            -> [ ControlUpDown(t, idx) EXCEPT !.write = TRUE ]

\* Variant: Left stops at the first page instead of wrapping.
ControlModeStep_NoWrap(b, t, idx) ==
    CASE b = NoButton     -> ControlNoButton(t, idx)
      [] b = SelectButton -> ControlSelect(t, idx)
      [] b = LeftButton   ->
           [ ControlLeft(t, idx) EXCEPT
               !.index = IF t = 0 /\ idx > ModeIndexMin THEN idx - 1 ELSE idx ]
      [] b = RightButton  -> ControlRight(t, idx)
      [] OTHER            -> ControlUpDown(t, idx)

\* case ControlMode, switch (ButtonPressed): the DisplayState and ModeIndex it
\* leaves and whether it called eeprom_write_block.
ControlModeStep(b, t, idx) ==
    CASE b = NoButton     -> ControlNoButton(t, idx)
      [] b = SelectButton -> ControlSelect(t, idx)
      [] b = LeftButton   -> ControlLeft(t, idx)
      [] b = RightButton  -> ControlRight(t, idx)
      [] OTHER            -> ControlUpDown(t, idx)

\* Variant: Select enters Control mode while held, not only on its leading edge.
PowerModeStep_Held(b, t) ==
    IF b = SelectButton THEN ControlMode ELSE PowerMode

\* case PowerMode, switch (ButtonPressed): the DisplayState it leaves; it calls
\* the current page exactly when it enters ControlMode, ProcessPowerDisplay
\* otherwise.
PowerModeStep(b, t) ==
    IF b = SelectButton /\ t = 0 THEN ControlMode ELSE PowerMode

\* Variant: the time-constant pages leave the coefficients as they are.
CallControl_Stale(p, b, t) ==
    /\ Settings' = fControl(p, Settings, b, t)
    /\ UNCHANGED << fAdcUpCoef, fAdcDecayCoef >>
    /\ Called' = [ kind |-> "control", page |-> p ]
    /\ Uses' = ControlUses(p, Settings')

\* The call of the page at index p with the button just read: Settings, the
\* coefficient the two time-constant pages recompute, and the reads recorded.
CallControl(p, b, t) ==
    LET S == fControl(p, Settings, b, t) IN
    /\ Settings' = S
    /\ fAdcUpCoef' = IF p = MeterAvgTcMode THEN Coef(S.MeterAvgTc) ELSE fAdcUpCoef
    /\ fAdcDecayCoef' = IF p = MeterDecayTcMode THEN Coef(S.MeterDecayTc)
                        ELSE fAdcDecayCoef
    /\ Called' = [ kind |-> "control", page |-> p ]
    /\ Uses' = ControlUses(p, S)

\* Variant: the power display also runs the current page on the button.
ProcessPowerDisplay_Edits ==
    /\ Called' = [ kind |-> "power", page |-> -1 ]
    /\ Uses' = ProcessPowerDisplayUses(Settings)
    /\ Settings' = fControl(ModeIndex, Settings, ButtonPressed', ButtonPressTime')
    /\ UNCHANGED << fAdcUpCoef, fAdcDecayCoef >>

\* ProcessPowerDisplay: Settings is read, never written.
ProcessPowerDisplay ==
    /\ Called' = [ kind |-> "power", page |-> -1 ]
    /\ Uses' = ProcessPowerDisplayUses(Settings)
    /\ UNCHANGED << Settings, fAdcUpCoef, fAdcDecayCoef >>

\* What the user does within the model's bounds.  In the "edit" environment
\* every button, and no button, lasts at most MaxHoldTicks further ticks and
\* the user makes one run of at most MaxAdjust consecutive Control-mode ticks
\* with Up or Down; in the "idle" environment the buttons may stay unpressed
\* for any time and Up and Down are not pressed in Control mode.
Adjusts(key) ==
    DisplayState = ControlMode /\ ButtonOfKey(key) \in { UpButton, DownButton }

InBounds(key, env) ==
    /\ (key = oldkey /\ (key < NUM_KEYS \/ env = "edit"))
          => ButtonPressTime < MaxHoldTicks * TimeBetweenDisplayUpdates
    /\ Adjusts(key) => (env = "edit" /\ nAdjust < MaxAdjust)

\* One run of DisplayMachine() with adc_key_in read from analog pin 0.
DisplayMachine(adc_key_in, env) ==
    LET rb == ReadButton(adc_key_in)
        b  == rb.pressed
        t  == rb.time
        cs == ControlModeStep(b, t, ModeIndex)
    IN
    /\ InBounds(DecodeKey(adc_key_in), env)
    /\ nAdjust' = IF Adjusts(DecodeKey(adc_key_in)) THEN nAdjust + 1
                  ELSE IF nAdjust > 0 THEN MaxAdjust
                  ELSE 0
    /\ oldkey' = rb.oldkey
    /\ ButtonPressed' = b
    /\ ButtonPressTime' = t
    /\ IF DisplayState = ControlMode
         THEN /\ DisplayState' = cs.state
              /\ ModeIndex' = cs.index
              /\ Eeprom' = IF cs.write THEN Settings ELSE Eeprom
              /\ EepromWrites' = IF cs.write THEN 1 ELSE 0
              /\ CallControl(cs.index, b, t)
         ELSE /\ DisplayState' = PowerModeStep(b, t)
              /\ UNCHANGED << ModeIndex, Eeprom >>
              /\ EepromWrites' = 0
              /\ IF PowerModeStep(b, t) = ControlMode
                   THEN CallControl(ModeIndex, b, t)
                   ELSE ProcessPowerDisplay

(***************************************************************************)
(* setup                                                                   *)
(***************************************************************************)
\* The offsets as setup() leaves them, analogRead returning pins[p] for pin p:
\* Pwr.fVolts = Pwr.fCal * analogRead(Pwr.iAdc), OffsetVolt = Pwr.fVolts, and
\* then both offsets are assigned 0.6.
SetupOffsets(pins) ==
    LET fVolts == [ ch \in { "Fwd", "Rev" } |->
                      VoltsOfCount(pins[IF ch = "Fwd" THEN PwrFwd.iAdc ELSE PwrRev.iAdc]) ]
        measured == [ ch \in { "Fwd", "Rev" } |-> fVolts[ch] ]
    IN [ measured EXCEPT !.Fwd = OffsetMilliVolts, !.Rev = OffsetMilliVolts ]

\* setup(): loads Settings from EEPROM, drives the backlight, derives the two
\* filter coefficients, sets the offsets and starts the timer after the 3 s
\* banner.
SetupOn(pins) ==
    /\ pc = "setup"
    /\ OffsetVolt' = SetupOffsets(pins)
    /\ pc' = "poll"
    /\ Settings' = Eeprom
    /\ Uses' = SetupUses(Eeprom)
    /\ fAdcUpCoef' = Coef(Eeprom.MeterAvgTc)
    /\ fAdcDecayCoef' = Coef(Eeprom.MeterDecayTc)
    /\ millis' = StartupDelay
    /\ UNCHANGED << Eeprom, DisplayState, ModeIndex, ButtonPressed, ButtonPressTime,
                    oldkey, DisplayTimeCounter, DisplayFlag, PwrFwd, PwrRev,
                    EepromWrites, Called, TicksSinceFlag, nAdjust, calcVars,
                    nRaise, nRun, Bar, auxVars >>

Setup == \E pins \in StartupPins : SetupOn(pins) /\ UNCHANGED AdcSeen

\* The globals as the C++ runtime leaves them before setup(), and the EEPROM
\* image found at power-up.
Init ==
    /\ pc = "setup"
    /\ Eeprom \in Records
    /\ Settings = [ f \in Fields |-> 0 ]
    /\ DisplayState = PowerMode
    /\ ModeIndex = 0
    /\ ButtonPressed = NoButton
    /\ ButtonPressTime = 0
    /\ oldkey = -1
    /\ fAdcUpCoef = [ num |-> 0, den |-> 1 ]
    /\ fAdcDecayCoef = [ num |-> 0, den |-> 1 ]
    /\ DisplayTimeCounter = 0
    /\ DisplayFlag = FALSE
    /\ millis = 0
    /\ PwrFwd = [ iAdc |-> 0, iAdcAvg |-> 0, fVoltsAvg |-> 0,
                 fWatts |-> [ d \in WattsDefs |-> 0 ] ]
    /\ PwrRev = [ iAdc |-> 0, iAdcAvg |-> 0, fVoltsAvg |-> 0,
                 fWatts |-> [ d \in WattsDefs |-> 0 ] ]
    /\ IntEnabled = TRUE
    /\ iAdcLocalAvg = 0
    /\ nStep = 0
    /\ EepromWrites = 0
    /\ Called = [ kind |-> "none", page |-> -1 ]
    /\ Uses = {}
    /\ TicksSinceFlag = 0
    /\ nAdjust = 0
    /\ OffsetVolt = [ ch \in { "Fwd", "Rev" } |-> 0 ]
    /\ nRaise = 0
    /\ nRun = 0
    /\ AdcSeen = [ pins |-> [ p \in AnalogPins |-> 0 ], fwd |-> 0, rev |-> 0 ]
    /\ Bar = [ StartCharLoc |-> 0, row |-> 0, ana |-> 0, cells |-> << >> ]
    /\ CoefWrite = NoCoefWrite
    /\ CoefUsed = NoCoefUsed
    /\ Twin = NoTwin
    /\ Smooth = [ ch \in { "Fwd", "Rev" } |-> [ DisplayNow |-> 0, DisplayTime |-> 0 ] ]

\* A display tick: loop() found DisplayFlag set, cleared it and ran DisplayMachine.
DisplayTick ==
    /\ pc = "poll"
    /\ \E adc_key_in \in KeyReadings : DisplayMachine(adc_key_in, "edit")
    /\ UNCHANGED << pc, isrVars, calcVars, ioVars >>

Next == Setup \/ DisplayTick

\* The display state machine, one step per display tick, with a user who edits.
Spec == Init /\ [][Next]_vars

\* A display tick with a user who navigates and waits but does not edit.
IdleTick ==
    /\ pc = "poll"
    /\ \E adc_key_in \in KeyReadings : DisplayMachine(adc_key_in, "idle")
    /\ UNCHANGED << pc, isrVars, calcVars, ioVars >>

NextIdle == Setup \/ IdleTick

\* The display state machine with a user who may leave the buttons alone; the
\* timer keeps raising DisplayFlag and loop() keeps polling it, so display
\* ticks keep coming.
SpecIdle == Init /\ [][NextIdle]_vars /\ WF_vars(NextIdle)

(***************************************************************************)
(* Properties of the display state machine                                 *)
(***************************************************************************)
\* A step taken from pc = "poll" is one run of DisplayMachine: the primed
\* ButtonPressed and ButtonPressTime are the button decoded on that tick.
SelectEdge == ButtonPressed' = SelectButton /\ ButtonPressTime' = 0

\* C1: in PowerMode a tick that decodes Select at ButtonPressTime 0 switches to
\* ControlMode and calls the page at ModeIndex; every other tick stays in
\* PowerMode and calls ProcessPowerDisplay.
TH_C1 ==
    [][ (pc = "poll" /\ DisplayState = PowerMode) =>
          IF SelectEdge
            THEN /\ DisplayState' = ControlMode
                 /\ Called' = [ kind |-> "control", page |-> ModeIndex ]
            ELSE /\ DisplayState' = PowerMode
                 /\ Called' = [ kind |-> "power", page |-> -1 ] ]_vars

\* C1 witness: Control mode was just entered by a Select leading edge.
W_C1 ==
    /\ DisplayState = ControlMode
    /\ ButtonPressed = SelectButton /\ ButtonPressTime = 0
    /\ Called.kind = "control"

\* C2: in ControlMode a tick that decodes Select at ButtonPressTime 0 writes
\* Settings to the EEPROM exactly once and switches to PowerMode; while Select
\* stays held on the following ticks nothing more is written and the mode
\* stays PowerMode.
TH_C2 ==
    [][ pc = "poll" =>
          /\ (DisplayState = ControlMode /\ SelectEdge) =>
                (EepromWrites' = 1 /\ Eeprom' = Settings /\ DisplayState' = PowerMode)
          /\ (DisplayState = PowerMode /\ ButtonPressed = SelectButton
                /\ ButtonPressed' = SelectButton /\ ButtonPressTime' > 0) =>
                (EepromWrites' = 0 /\ Eeprom' = Eeprom /\ DisplayState' = PowerMode)
      ]_vars

\* C2 witness: Select is still held two ticks after the exit from Control mode
\* (PowerMode with Select held arises in no other way).
W_C2 ==
    /\ DisplayState = PowerMode
    /\ ButtonPressed = SelectButton
    /\ ButtonPressTime = 2 * TimeBetweenDisplayUpdates
    /\ EepromWrites = 0

\* PowerMode with Select at ButtonPressTime 0 is the state right after the
\* leading-edge tick of a Select press made in ControlMode (a Select edge in
\* PowerMode leaves ControlMode instead).
JustLeftControl ==
    DisplayState = PowerMode /\ ButtonPressed = SelectButton /\ ButtonPressTime = 0

\* C3 as stated: a Select press made in Control mode and released on the next
\* tick, before any commit countdown longer than one tick completes, has
\* written nothing and leaves the mode ControlMode.
CX_C3 ==
    [][ (pc = "poll" /\ JustLeftControl /\ ButtonPressed' # SelectButton) =>
          (EepromWrites = 0 /\ EepromWrites' = 0 /\ DisplayState' = ControlMode) ]_vars

\* C3 amended: there is no countdown.  The leading-edge tick of a Select press
\* in ControlMode writes once and leaves ControlMode at once, and releasing
\* Select on the next tick neither undoes nor repeats the write and leaves the
\* mode PowerMode.
TH_C3 ==
    [][ pc = "poll" =>
          /\ (DisplayState = ControlMode /\ SelectEdge) =>
                (EepromWrites' = 1 /\ DisplayState' = PowerMode)
          /\ (JustLeftControl /\ ButtonPressed' # SelectButton) =>
                (EepromWrites = 1 /\ EepromWrites' = 0 /\ Eeprom' = Eeprom
                   /\ DisplayState' = PowerMode)
      ]_vars

\* C3 witness: the write is done on the leading-edge tick, before any release.
W_C3 == JustLeftControl /\ EepromWrites = 1 /\ Eeprom = Settings

\* C4: in ControlMode the tick on which NoButton reaches ButtonPressTime 5000
\* switches to PowerMode without an EEPROM write; so whenever no button is
\* pressed any more, ControlMode is eventually left.
TH_C4 ==
    /\ [][ (pc = "poll" /\ DisplayState = ControlMode
              /\ ButtonPressed' = NoButton /\ ButtonPressTime' = 5000) =>
             (DisplayState' = PowerMode /\ EepromWrites' = 0 /\ Eeprom' = Eeprom) ]_vars
    /\ []<>(ButtonPressed # NoButton \/ DisplayState = PowerMode)

\* C4 witness: the timeout tick, which still called the page and left PowerMode.
W_C4 ==
    /\ DisplayState = PowerMode
    /\ ButtonPressed = NoButton /\ ButtonPressTime = 5000
    /\ Called.kind = "control"

\* C5: the EEPROM is written only by a ControlMode tick that decodes Select at
\* ButtonPressTime 0 and leaves ControlMode: never by a tick with another
\* button or none, never by a tick that starts in PowerMode, never by setup.
TH_C5 ==
    [][ (EepromWrites' # 0 \/ Eeprom' # Eeprom) =>
          (pc = "poll" /\ DisplayState = ControlMode /\ SelectEdge
             /\ DisplayState' = PowerMode) ]_vars

\* C5 witness: a field was edited and the stored record is still the one
\* found at power-up.
W_C5 ==
    /\ nAdjust > 0
    /\ Eeprom \in Records
    /\ Settings.MeterAvgTc # Eeprom.MeterAvgTc

\* C6: in ControlMode a leading-edge Left on page 0 selects page 10, a
\* leading-edge Right on page 10 selects page 0, and otherwise Left and Right
\* move the page index by one.
TH_C6 ==
    [][ (pc = "poll" /\ DisplayState = ControlMode /\ ButtonPressTime' = 0) =>
          /\ ButtonPressed' = LeftButton =>
                ModeIndex' = IF ModeIndex = 0 THEN 10 ELSE ModeIndex - 1
          /\ ButtonPressed' = RightButton =>
                ModeIndex' = IF ModeIndex = 10 THEN 0 ELSE ModeIndex + 1 ]_vars

\* C6 witness: Left was just pressed and the page is the last one.
W_C6 ==
    /\ DisplayState = ControlMode
    /\ ButtonPressed = LeftButton /\ ButtonPressTime = 0
    /\ ModeIndex = 10

\* The value a page's range check leaves before its switch (ButtonPressed).
Checked(p, v) ==
    IF p = MeterTypeMode
      THEN WrapCheck(v, FieldMin(PageField(p)), FieldMax(PageField(p)))
      ELSE RangeCheck(v, FieldMin(PageField(p)), FieldMax(PageField(p)))

\* On a tick that calls a page with Up or Down: how far the page's field moved
\* in the direction of the button, counted from the range-checked value.
Moved ==
    LET p == ModeIndex'
        d == Settings'[PageField(p)] - Checked(p, Settings[PageField(p)])
    IN IF ButtonPressed' = UpButton THEN d ELSE 0 - d

AdjustTick ==
    /\ pc = "poll"
    /\ Called'.kind = "control"
    /\ ButtonPressed' \in { UpButton, DownButton }

\* C7 as stated: on every page a fresh Up or Down moves the field by a fixed
\* non-zero step and a held one by a positive multiple of ButtonPressTime.
CX_C7 ==
    [][ AdjustTick =>
          IF ButtonPressTime' = 0
            THEN Moved > 0
            ELSE \E tenths \in 1..20 :
                   Moved = (tenths * ButtonPressTime' * Scale) \div 10000 ]_vars

\* The step each page applies, in units of 1/Scale.
PageStep(p, t) ==
    CASE p \in { FwdMode, RevMode } -> (t * Scale) \div 10000
      [] p \in { BacklightMode, FwdLimitMode, RevLimitMode, MeterScaleFwdMode } ->
           (t * Scale) \div 1000
      [] p = MeterScaleRevMode -> (2 * t * Scale) \div 1000
      [] p \in { MeterAvgTcMode, MeterDecayTcMode } ->
           IF t = 0 THEN Scale ELSE (t * Scale) \div 1000
      [] p \in { MeterMode, MeterTypeMode } -> IF t = 0 THEN 1 ELSE 0

\* C7 amended: the policy is not uniform.  Counted from the range-checked
\* value, Up adds and Down subtracts 0.0001 * ButtonPressTime on the two
\* coupler pages, 0.001 * ButtonPressTime on the backlight, limit and forward
\* scale pages, 0.002 * ButtonPressTime on the reverse scale page (nothing on
\* a fresh press for these seven); 1.0 on a fresh press and
\* 0.001 * ButtonPressTime while held on the two time-constant pages; one
\* index on a fresh press and nothing while held on the mode and type pages.
TH_C7 == [][ AdjustTick => Moved = PageStep(ModeIndex', ButtonPressTime') ]_vars

\* C7 witness: Up held on the reverse scale page.
W_C7 ==
    /\ Called = [ kind |-> "control", page |-> MeterScaleRevMode ]
    /\ ButtonPressed = UpButton
    /\ ButtonPressTime = TimeBetweenDisplayUpdates
    /\ Settings.MeterScaleRev > Eeprom.MeterScaleRev

\* C8 as stated: when a page returns from a tick with Up or Down, the field it
\* edits is within its [Min, Max].
CX_C8 ==
    (pc = "poll" /\ Called.kind = "control"
       /\ ButtonPressed \in { UpButton, DownButton })
      => InRange(PageField(Called.page), Settings[PageField(Called.page)])

\* C9 as stated: every value of a Settings field that setup, a page or the
\* power display reads is within the field's [Min, Max].
CX_C9 == \A u \in Uses : InRange(u[1], u[2])

(***************************************************************************)
(* TimedService and loop                                                   *)
(***************************************************************************)
\* (int) of a float: truncation toward zero (d > 0).
TruncDiv(n, d) == IF n >= 0 THEN n \div d ELSE 0 - ((0 - n) \div d)

\* Variant: the new average is rounded to the nearest count.
IIR_Rounded(avg, adc, c) ==
    TruncDiv(2 * ((c.den - c.num) * avg + c.num * adc) + c.den, 2 * c.den)

\* (int)((1.0 - c) * avg + c * adc) for the coefficient c = num/den, den > 0.
IIR(avg, adc, c) == TruncDiv((c.den - c.num) * avg + c.num * adc, c.den)

\* Variant: the two coefficients are exchanged.
FilterStep_Swapped(avg, adc, up, decay) ==
    IF adc > avg THEN IIR(avg, adc, decay)
    ELSE IF adc < avg THEN IIR(avg, adc, up)
    ELSE avg

\* The filter of one channel in UpdateAnalogInputs.
FilterStep(avg, adc, up, decay) ==
    IF adc > avg THEN IIR(avg, adc, up)
    ELSE IF adc < avg THEN IIR(avg, adc, decay)
    ELSE avg

\* The test input 0x3ff & (int) millis() >> 3 that overwrites both ADC reads:
\* the 16-bit clock shifted right by three, its low ten bits.
TestInput(ms) == ((ms % 65536) \div 8) % 1024

\* UpdateAnalogInputs as a function of the two channels it is run on.
UpdatedInputs(F, R, fwd, rev, now) ==
    LET f == [ F EXCEPT !.iAdc = fwd ]
        r == [ R EXCEPT !.iAdc = rev ]
        ft == [ f EXCEPT !.iAdc = TestInput(now) ]
        rt == [ r EXCEPT !.iAdc = TestInput(now) ]
    IN [ Fwd |-> [ ft EXCEPT !.iAdcAvg =
                     FilterStep(ft.iAdcAvg, ft.iAdc, fAdcUpCoef, fAdcDecayCoef) ],
         Rev |-> [ rt EXCEPT !.iAdcAvg =
                     FilterStep(rt.iAdcAvg, rt.iAdc, fAdcUpCoef, fAdcDecayCoef) ] ]

\* UpdateAnalogInputs with the two analogRead results fwd and rev.
UpdateAnalogInputs(fwd, rev, now) ==
    LET u == UpdatedInputs(PwrFwd, PwrRev, fwd, rev, now) IN
    PwrFwd' = u.Fwd /\ PwrRev' = u.Rev

\* The counter test of TimedService: whether this run raises DisplayFlag.
Raises(counter) == counter > TimeBetweenDisplayUpdates

\* TimedService(), run by MsTimer2 every TimeBetweenInterrupts ms once setup
\* started the timer, with the two analogRead results fwd and rev.
TimedServiceOn(fwd, rev) ==
    LET counter == DisplayTimeCounter + TimeBetweenInterrupts IN
    /\ pc # "setup"
    /\ IntEnabled
    /\ millis < StartupDelay + MaxRunMs
    /\ millis' = millis + TimeBetweenInterrupts
    /\ DisplayTimeCounter' = IF Raises(counter) THEN 0 ELSE counter
    /\ DisplayFlag' = (Raises(counter) \/ DisplayFlag)
    /\ TicksSinceFlag' = IF Raises(counter) THEN 0 ELSE TicksSinceFlag + 1
    /\ nRaise' = IF Raises(counter) THEN nRaise + 1 ELSE nRaise
    /\ UpdateAnalogInputs(fwd, rev, millis')
    /\ UNCHANGED << pc, menuVars, calcVars, OffsetVolt, nRun, Bar, auxVars >>

\* A run of TimedService, analogRead returning any level for either detector.
TimedService ==
    \E fwd \in AdcReadings, rev \in AdcReadings :
        TimedServiceOn(fwd, rev) /\ UNCHANGED AdcSeen

\* loop(): the test of DisplayFlag and its clearing.
LoopPoll ==
    /\ pc = "poll"
    /\ DisplayFlag
    /\ DisplayFlag' = FALSE
    /\ pc' = "display"
    /\ UNCHANGED << menuVars, DisplayTimeCounter, millis, PwrFwd, PwrRev,
                    TicksSinceFlag, calcVars, ioVars >>

\* Variant: DisplayFlag is cleared once DisplayMachine has returned.
LoopDisplay_ClearsAfter ==
    /\ pc = "display"
    /\ \E adc_key_in \in { 900 } : DisplayMachine(adc_key_in, "idle")
    /\ pc' = "poll"
    /\ nRun' = nRun + 1
    /\ DisplayFlag' = FALSE
    /\ UNCHANGED << DisplayTimeCounter, millis, PwrFwd, PwrRev, TicksSinceFlag,
                    calcVars, OffsetVolt, nRaise, AdcSeen, Bar, auxVars >>

\* loop(): the call of DisplayMachine, with no button pressed.
LoopDisplay ==
    /\ pc = "display"
    /\ \E adc_key_in \in { 900 } : DisplayMachine(adc_key_in, "idle")
    /\ pc' = "poll"
    /\ nRun' = nRun + 1
    /\ UNCHANGED << isrVars, calcVars, OffsetVolt, nRaise, AdcSeen, Bar, auxVars >>

NextTimer == Setup \/ TimedService \/ LoopPoll \/ LoopDisplay

\* The timer interrupt and the main loop, interleaved.
SpecTimer == Init /\ [][NextTimer]_vars

\* C10 as stated: DisplayFlag is raised on every 25th run of TimedService, so
\* a run that raises it is the 25th since the last raise (or since the start).
CX_C10 ==
    [][ (pc # "setup" /\ millis' = millis + TimeBetweenInterrupts
           /\ DisplayTimeCounter' = 0)
          => TicksSinceFlag + 1 = 25 ]_vars

(***************************************************************************)
(* CalculatePower in the main loop, against the timer interrupt            *)
(***************************************************************************)
Chan(ch) == IF ch = "Fwd" THEN PwrFwd ELSE PwrRev

CouplerGainOf(ch) ==
    IF ch = "Fwd" THEN Settings.CouplerGainFwdDB ELSE Settings.CouplerGainRevDB

\* Variant: the noInterrupts() call is missing.
CpDisable_Omitted(ch) ==
    /\ pc = ch \o "_cli"
    /\ pc' = ch \o "_lo"
    /\ UNCHANGED << menuVars, isrVars, calcVars, ioVars >>

\* noInterrupts();
CpDisable(ch) ==
    /\ pc = ch \o "_cli"
    /\ pc' = ch \o "_lo"
    /\ IntEnabled' = FALSE
    /\ UNCHANGED << menuVars, isrVars, iAdcLocalAvg, nStep, ioVars >>

\* iAdcLocalAvg = Pwr.iAdcAvg; a 16-bit int, which the 8-bit processor loads
\* one byte at a time: first the low byte,
CpReadLo(ch) ==
    /\ pc = ch \o "_lo"
    /\ pc' = ch \o "_hi"
    /\ iAdcLocalAvg' = Chan(ch).iAdcAvg % 256
    /\ UNCHANGED << menuVars, isrVars, IntEnabled, nStep, ioVars >>

\* then the high byte.
CpReadHi(ch) ==
    /\ pc = ch \o "_hi"
    /\ pc' = ch \o "_sei"
    /\ iAdcLocalAvg' = iAdcLocalAvg + 256 * (Chan(ch).iAdcAvg \div 256)
    /\ UNCHANGED << menuVars, isrVars, IntEnabled, nStep, ioVars >>

\* interrupts();
CpEnable(ch) ==
    /\ pc = ch \o "_sei"
    /\ pc' = ch \o "_watts"
    /\ IntEnabled' = TRUE
    /\ UNCHANGED << menuVars, isrVars, iAdcLocalAvg, nStep, ioVars >>

\* Pwr.fVoltsAvg = Pwr.fCal * iAdcLocalAvg; Pwr.fWatts = Watts(...);
CpWatts(ch) ==
    LET c == CalculateChannel(CouplerGainOf(ch), OffsetVolt[ch], iAdcLocalAvg)
        new == [ Chan(ch) EXCEPT !.fVoltsAvg = c.fVoltsAvg, !.fWatts = c.fWatts ]
    IN
    /\ pc = ch \o "_watts"
    /\ pc' = IF ch = "Fwd" THEN "Rev_cli" ELSE "poll"
    /\ IF ch = "Fwd" THEN PwrFwd' = new /\ UNCHANGED PwrRev
                     ELSE PwrRev' = new /\ UNCHANGED PwrFwd
    /\ UNCHANGED << menuVars, DisplayTimeCounter, DisplayFlag, millis,
                    TicksSinceFlag, calcVars, ioVars >>

\* CalculatePower(): the forward channel, then the reverse channel.
CalculatePower ==
    \E ch \in { "Fwd", "Rev" } :
        \/ CpDisable(ch)
        \/ CpReadLo(ch)
        \/ CpReadHi(ch)
        \/ CpEnable(ch)
        \/ CpWatts(ch)

\* loop(): the call of DisplayMachine with no button pressed, up to the call
\* of CalculatePower that DisplayPower makes.
LoopDisplayPower ==
    /\ pc = "display"
    /\ \E adc_key_in \in { 900 } : DisplayMachine(adc_key_in, "idle")
    /\ pc' = "Fwd_cli"
    /\ nRun' = nRun + 1
    /\ UNCHANGED << isrVars, calcVars, OffsetVolt, nRaise, AdcSeen, Bar, auxVars >>

NextCalc == Setup \/ TimedService \/ LoopPoll \/ LoopDisplayPower \/ CalculatePower

\* The timer interrupt against the main loop, CalculatePower statement by
\* statement.
SpecCalc == Init /\ [][NextCalc]_vars

\* C11: after setup, the main loop reads iAdcAvg only with interrupts
\* disabled; no run of TimedService falls between the two byte loads of a
\* snapshot, so the snapshot is the value the channel holds when interrupts
\* are enabled again; and no step of the main loop changes iAdc or iAdcAvg of
\* either channel.
TH_C11 ==
    /\ [][ /\ (pc \in { "Fwd_lo", "Fwd_hi", "Rev_lo", "Rev_hi" } /\ pc' # pc)
                => ~IntEnabled
           /\ (pc # "setup" /\ millis' # millis)
                => pc \notin { "Fwd_hi", "Rev_hi" }
           /\ (pc # "setup" /\ pc' # pc)
                => /\ PwrFwd'.iAdc = PwrFwd.iAdc /\ PwrFwd'.iAdcAvg = PwrFwd.iAdcAvg
                   /\ PwrRev'.iAdc = PwrRev.iAdc /\ PwrRev'.iAdcAvg = PwrRev.iAdcAvg
         ]_vars
    /\ [](pc = "Fwd_sei" => iAdcLocalAvg = PwrFwd.iAdcAvg)
    /\ [](pc = "Rev_sei" => iAdcLocalAvg = PwrRev.iAdcAvg)

\* C11 witness: a two-byte snapshot of the reverse channel is complete, taken
\* with interrupts disabled after the timer has run.
W_C11 ==
    /\ pc = "Rev_sei"
    /\ ~IntEnabled
    /\ iAdcLocalAvg > 255
    /\ iAdcLocalAvg = PwrRev.iAdcAvg
    /\ millis > StartupDelay

(***************************************************************************)
(* The filter of UpdateAnalogInputs on given raw samples                   *)
(***************************************************************************)
\* Raw samples and starting averages, in ADC counts.
RawInputs == { 0, 512, 1023 }
StartAverages == { 0, 600, 1023 }
\* MeterAvgTc and MeterDecayTc, in ms, within the [1, 2000] their pages allow.
AttackTcs == { 1, 2, 1000 }
DecayTcs == { 2, 1000 }

\* The state after setup() with the two time constants drawn from their
\* ranges, each channel holding some average when the raw input is applied.
InitFilter ==
    /\ pc = "poll"
    /\ \E a \in AttackTcs, d \in DecayTcs :
          /\ Settings = [ GoodRecord EXCEPT !.MeterAvgTc = a * Scale,
                                            !.MeterDecayTc = d * Scale ]
          /\ fAdcUpCoef = Coef(a * Scale)
          /\ fAdcDecayCoef = Coef(d * Scale)
    /\ Eeprom = Settings
    /\ DisplayState = PowerMode
    /\ ModeIndex = 0
    /\ ButtonPressed = NoButton
    /\ ButtonPressTime = 0
    /\ oldkey = -1
    /\ DisplayTimeCounter = 0
    /\ DisplayFlag = FALSE
    /\ millis = StartupDelay
    /\ \E raw \in RawInputs, avg \in StartAverages :
          PwrFwd = [ iAdc |-> raw, iAdcAvg |-> avg, fVoltsAvg |-> 0,
                     fWatts |-> [ d \in WattsDefs |-> 0 ] ]
    /\ PwrRev = PwrFwd
    /\ EepromWrites = 0
    /\ Called = [ kind |-> "none", page |-> -1 ]
    /\ Uses = SetupUses(Settings)
    /\ TicksSinceFlag = 0
    /\ nAdjust = 0
    /\ OffsetVolt = [ ch \in { "Fwd", "Rev" } |-> OffsetMilliVolts ]
    /\ nRaise = 0
    /\ nRun = 0
    /\ AdcSeen = [ pins |-> [ p \in AnalogPins |-> 0 ], fwd |-> 0, rev |-> 0 ]
    /\ Bar = [ StartCharLoc |-> 0, row |-> 0, ana |-> 0, cells |-> << >> ]
    /\ CoefWrite = NoCoefWrite
    /\ CoefUsed = NoCoefUsed
    /\ Twin = NoTwin
    /\ Smooth = [ ch \in { "Fwd", "Rev" } |-> [ DisplayNow |-> 0, DisplayTime |-> 0 ] ]
    /\ IntEnabled = TRUE
    /\ iAdcLocalAvg = 0
    /\ nStep = 0

\* The filter statements of UpdateAnalogInputs, both channels sampling raw;
\* the raw input changes at most MaxSteps times.
FilterTick ==
    \E raw \in RawInputs :
        /\ raw # PwrFwd.iAdc => nStep < MaxSteps
        /\ nStep' = IF raw # PwrFwd.iAdc THEN nStep + 1 ELSE nStep
        /\ PwrFwd' = [ PwrFwd EXCEPT
                         !.iAdc = raw,
                         !.iAdcAvg = FilterStep(@, raw, fAdcUpCoef, fAdcDecayCoef) ]
        /\ PwrRev' = [ PwrRev EXCEPT
                         !.iAdc = raw,
                         !.iAdcAvg = FilterStep(@, raw, fAdcUpCoef, fAdcDecayCoef) ]
        /\ UNCHANGED << pc, menuVars, DisplayTimeCounter, DisplayFlag, millis,
                        TicksSinceFlag, IntEnabled, iAdcLocalAvg, ioVars >>

NextFilter == FilterTick

\* The filter under a raw input that is constant in the end; the timer keeps
\* running UpdateAnalogInputs.
SpecFilter == InitFilter /\ [][NextFilter]_vars /\ WF_vars(FilterTick)

Gap(ch) == IF ch.iAdc >= ch.iAdcAvg THEN ch.iAdc - ch.iAdcAvg
           ELSE ch.iAdcAvg - ch.iAdc

\* C12 as stated: once the raw input stays constant, iAdcAvg eventually comes
\* and stays within a small epsilon (10 counts of 1023) of it.
CX_C12 == <>[](Gap(PwrFwd) <= 10)

\* C13 as stated, for the only value the channel keeps (iAdcAvg): on the tick
\* on which the raw input steps down from a level the value had reached, the
\* value stays at that level, as any hold duration of at least one tick
\* requires.
CX_C13 ==
    [][ (PwrFwd.iAdcAvg = PwrFwd.iAdc /\ PwrFwd'.iAdc < PwrFwd.iAdc)
          => PwrFwd'.iAdcAvg = PwrFwd.iAdcAvg ]_vars

\* C14: with MeterAvgTc 2 ms and MeterDecayTc 1000 ms, a raw sample of 1023
\* after samples of 0 brings iAdcAvg from 0 to at least 1000 on that very
\* tick, and every tick with a raw sample of 0 lowers a positive iAdcAvg by
\* 2/1000 of it, rounded up to whole counts (at most one count more).
TH_C14 ==
    [][ (fAdcUpCoef = Coef(2 * Scale) /\ fAdcDecayCoef = Coef(1000 * Scale)) =>
          /\ (PwrFwd.iAdc = 0 /\ PwrFwd.iAdcAvg = 0 /\ PwrFwd'.iAdc = 1023)
                => PwrFwd'.iAdcAvg >= 1000
          /\ (PwrFwd'.iAdc = 0 /\ PwrFwd.iAdcAvg > 0)
                => LET fall == PwrFwd.iAdcAvg - PwrFwd'.iAdcAvg IN
                   /\ 1000 * fall >= 2 * PwrFwd.iAdcAvg
                   /\ 1000 * fall <= 2 * PwrFwd.iAdcAvg + 1000
      ]_vars

\* C14 witness: the first tick of the decay after the step from 0 to 1023 and
\* back to 0.
W_C14 ==
    /\ fAdcUpCoef = Coef(2 * Scale) /\ fAdcDecayCoef = Coef(1000 * Scale)
    /\ nStep = 2
    /\ PwrFwd.iAdc = 0
    /\ PwrFwd.iAdcAvg = 1020

(***************************************************************************)
(* Properties of ReadButton                                                *)
(***************************************************************************)
\* C15: on the first display tick ButtonPressTime becomes 0; on every later
\* tick it becomes 0 when the decoded button differs from the one of the tick
\* before, and min(ButtonPressTime + 50, 5000) with the button kept when it
\* is the same, so a held tick at 5000 changes neither.  ButtonPressTime is
\* always a multiple of 50 within [0, 5000].
TH_C15 ==
    /\ [][ pc = "poll" =>
             IF oldkey = -1 \/ ButtonPressed' # ButtonPressed
               THEN ButtonPressTime' = 0 /\ oldkey' # oldkey
               ELSE /\ oldkey' = oldkey
                    /\ ButtonPressTime' =
                         (IF ButtonPressTime + 50 < 5000 THEN ButtonPressTime + 50
                          ELSE 5000)
                    /\ (ButtonPressTime = 5000 => ButtonPressTime' = 5000)
          ]_vars
    /\ [](ButtonPressTime \in 0..5000 /\ ButtonPressTime % 50 = 0)

\* C15 witness: no button has been held past the maximum, in PowerMode.
W_C15 ==
    /\ ButtonPressed = NoButton
    /\ ButtonPressTime = ButtonPressTimeMax
    /\ Called.kind = "power"

\* The button the ladder assigns to a reading, by ascending thresholds.
Ladder(r) ==
    IF r < 50 THEN RightButton
    ELSE IF r < 200 THEN UpButton
    ELSE IF r < 400 THEN DownButton
    ELSE IF r < 600 THEN LeftButton
    ELSE IF r < 800 THEN SelectButton
    ELSE NoButton

\* C16: in every state the display tick can start from, whatever key and
\* button the tick before left behind, a reading r in 0..1023 makes
\* ReadButton leave exactly the button of r's band in ButtonPressed.
TH_C16 == \A r \in 0..AdcMaxCount : ReadButton(r).pressed = Ladder(r)

\* C16 witness: Up is held for a second tick, so ReadButton kept the button
\* of the tick before.
W_C16 ==
    /\ oldkey = 1
    /\ ButtonPressed = UpButton
    /\ ButtonPressTime = TimeBetweenDisplayUpdates

(***************************************************************************)
(* CalculatePower over the whole range of the ADC                          *)
(***************************************************************************)
\* Forward coupler gains, in dB, within the [-60, -10] of the page.
CouplerGains == { -60, -40 }

\* The channel after CalculatePower ran on the average n.
Calculated(ch, dB, Vol, n) ==
    LET c == CalculateChannel(dB, Vol, n) IN
    [ ch EXCEPT !.iAdc = n, !.iAdcAvg = n,
                !.fVoltsAvg = c.fVoltsAvg, !.fWatts = c.fWatts ]

\* The state after setup() and a first CalculatePower on averages of 0.
InitWatts ==
    /\ pc = "poll"
    /\ \E g \in CouplerGains :
          Settings = [ GoodRecord EXCEPT !.CouplerGainFwdDB = g * Scale ]
    /\ Eeprom = Settings
    /\ DisplayState = PowerMode
    /\ ModeIndex = 0
    /\ ButtonPressed = NoButton
    /\ ButtonPressTime = 0
    /\ oldkey = 5
    /\ fAdcUpCoef = Coef(Settings.MeterAvgTc)
    /\ fAdcDecayCoef = Coef(Settings.MeterDecayTc)
    /\ DisplayTimeCounter = 0
    /\ DisplayFlag = FALSE
    /\ millis = StartupDelay
    /\ OffsetVolt = [ ch \in { "Fwd", "Rev" } |-> OffsetMilliVolts ]
    /\ PwrFwd = Calculated([ iAdc |-> 0, iAdcAvg |-> 0, fVoltsAvg |-> 0,
                             fWatts |-> [ d \in WattsDefs |-> 0 ] ],
                           Settings.CouplerGainFwdDB, OffsetVolt.Fwd, 0)
    /\ PwrRev = Calculated([ iAdc |-> 0, iAdcAvg |-> 0, fVoltsAvg |-> 0,
                             fWatts |-> [ d \in WattsDefs |-> 0 ] ],
                           Settings.CouplerGainRevDB, OffsetVolt.Rev, 0)
    /\ EepromWrites = 0
    /\ Called = [ kind |-> "power", page |-> -1 ]
    /\ Uses = ProcessPowerDisplayUses(Settings)
    /\ TicksSinceFlag = 0
    /\ nAdjust = 0
    /\ nRaise = 0
    /\ nRun = 0
    /\ AdcSeen = [ pins |-> [ p \in AnalogPins |-> 0 ], fwd |-> 0, rev |-> 0 ]
    /\ Bar = [ StartCharLoc |-> 0, row |-> 0, ana |-> 0, cells |-> << >> ]
    /\ CoefWrite = NoCoefWrite
    /\ CoefUsed = NoCoefUsed
    /\ Twin = NoTwin
    /\ Smooth = [ ch \in { "Fwd", "Rev" } |-> [ DisplayNow |-> 0, DisplayTime |-> 0 ] ]
    /\ IntEnabled = TRUE
    /\ iAdcLocalAvg = 0
    /\ nStep = 0

\* The timer has brought both averages to n, and CalculatePower runs on them.
SampleAndCalculate ==
    \E n \in 0..AdcMaxCount :
        /\ PwrFwd' = Calculated(PwrFwd, Settings.CouplerGainFwdDB, OffsetVolt.Fwd, n)
        /\ PwrRev' = Calculated(PwrRev, Settings.CouplerGainRevDB, OffsetVolt.Rev, n)
        /\ iAdcLocalAvg' = n
        /\ UNCHANGED << pc, menuVars, DisplayTimeCounter, DisplayFlag, millis,
                        TicksSinceFlag, IntEnabled, nStep, ioVars >>

NextWatts == SampleAndCalculate

SpecWatts == InitWatts /\ [][NextWatts]_vars

\* C17: with the coupler gains and the offset fixed, when CalculatePower runs
\* on a voltage that is not lower than the one before, the watts of neither
\* channel get lower, under either definition of Watts and across the knee;
\* and at the knee of 0.421 V the two fits differ by less than 0.003 V.
TH_C17 ==
    /\ [][ PwrFwd'.fVoltsAvg >= PwrFwd.fVoltsAvg =>
             \A d \in WattsDefs : /\ PwrFwd'.fWatts[d] >= PwrFwd.fWatts[d]
                                  /\ PwrRev'.fWatts[d] >= PwrRev.fWatts[d] ]_vars
    /\ [](VinppHigh(KneeMilliVolts) - VinppLow(KneeMilliVolts) \in -299..299)

\* C17 witness: the voltage after the offset is just above the knee, and the
\* watts are those of the high fit.
W_C17 ==
    /\ PwrFwd.fVoltsAvg - OffsetMilliVolts \in KneeMilliVolts..(KneeMilliVolts + 5)
    /\ PwrFwd.fWatts[2] =
         WattsOfVinpp(Settings.CouplerGainFwdDB,
                      VinppHigh(PwrFwd.fVoltsAvg - OffsetMilliVolts))
    /\ PwrFwd.fWatts[2] > 0

\* C18 as stated: the watts CalculatePower stores for a channel are the curve
\* fit of max(0, fCal * iAdcAvg - offset), whichever definition of Watts is
\* the one linked.
CX_C18 ==
    \A d \in WattsDefs :
        LET once == VoltsOfCount(PwrFwd.iAdcAvg) - OffsetMilliVolts IN
        PwrFwd.fWatts[d] =
            CurveFit(Settings.CouplerGainFwdDB, IF once < 0 THEN 0 ELSE once)

(***************************************************************************)
(* Properties of the range checks and of the Settings record               *)
(***************************************************************************)
\* C19: on a tick that calls a page with a button other than Up and Down the
\* page only applies its range check to its field: a value within [Min, Max]
\* is left as it is, and applying the page's check once more to the result
\* changes nothing.
TH_C19 ==
    [][ (pc = "poll" /\ Called'.kind = "control"
           /\ ButtonPressed' \notin { UpButton, DownButton }) =>
          LET p == ModeIndex'
              f == PageField(p)
          IN /\ InRange(f, Settings[f]) => Settings'[f] = Settings[f]
             /\ fControl(p, Settings', NoButton, 0)[f] = Settings'[f]
             /\ fControl(p, fControl(p, Settings, NoButton, 0), NoButton, 0)
                  = fControl(p, Settings, NoButton, 0) ]_vars

\* C19 witness: the backlight page was reached with the level of 200 the
\* EEPROM held, and its range check has brought it to 100.
W_C19 ==
    /\ Called = [ kind |-> "control", page |-> BacklightMode ]
    /\ ButtonPressed \notin { UpButton, DownButton }
    /\ Eeprom.BacklightLevel = 200 * Scale
    /\ Settings.BacklightLevel = 100 * Scale

\* loop(): the call of DisplayMachine, with whatever button the user holds.
LoopDisplayKeys ==
    /\ pc = "display"
    /\ \E adc_key_in \in KeyReadings : DisplayMachine(adc_key_in, "idle")
    /\ pc' = "poll"
    /\ nRun' = nRun + 1
    /\ UNCHANGED << isrVars, calcVars, OffsetVolt, nRaise, AdcSeen, Bar, auxVars >>

NextFrame == Setup \/ TimedService \/ LoopPoll \/ LoopDisplayKeys

\* The timer interrupt and the main loop with a user at the buttons.
SpecFrame == Init /\ [][NextFrame]_vars

\* C20: a run of DisplayMachine that starts and ends in PowerMode leaves
\* Settings as it was, whatever button was decoded, and a run of TimedService
\* neither changes Settings nor reads any of its fields.
TH_C20 ==
    [][ /\ (pc = "display" /\ pc' = "poll"
              /\ DisplayState = PowerMode /\ DisplayState' = PowerMode)
             => Settings' = Settings
        /\ (pc # "setup" /\ millis' # millis)
             => (Settings' = Settings /\ Uses' = Uses) ]_vars

\* C20 witness: Up was held for a second display tick in PowerMode, after the
\* timer has run, and Settings is still the record loaded by setup.
W_C20 ==
    /\ pc = "poll"
    /\ DisplayState = PowerMode
    /\ ButtonPressed = UpButton
    /\ ButtonPressTime = TimeBetweenDisplayUpdates
    /\ Called.kind = "power"
    /\ millis > StartupDelay
    /\ Settings = Eeprom


(***************************************************************************)
(* The hand-off of DisplayFlag between TimedService and loop               *)
(***************************************************************************)
\* loop(): the test DisplayFlag == true, found true.
LoopTest ==
    /\ pc = "poll"
    /\ DisplayFlag
    /\ pc' = "clear"
    /\ UNCHANGED << menuVars, isrVars, calcVars, ioVars >>

\* loop(): DisplayFlag = false, a statement of its own after the test.
LoopClear ==
    /\ pc = "clear"
    /\ DisplayFlag' = FALSE
    /\ pc' = "display"
    /\ UNCHANGED << menuVars, DisplayTimeCounter, millis, PwrFwd, PwrRev,
                    TicksSinceFlag, calcVars, ioVars >>

NextFlag == Setup \/ TimedService \/ LoopTest \/ LoopClear \/ LoopDisplay

\* The timer interrupt against loop(), whose test and clearing of DisplayFlag
\* are two steps; loop() keeps running.
SpecFlag ==
    Init /\ [][NextFlag]_vars /\ WF_vars(LoopTest \/ LoopClear \/ LoopDisplay)

\* loop() is about to call DisplayMachine or is inside it.
Running == pc = "display"

\* C21: a run of DisplayMachine is made only from the point loop() reaches
\* after it has seen DisplayFlag set and cleared it; DisplayFlag goes from set
\* to clear only there, at the start of a run; the runs never outnumber the
\* raises; and when the flag is raised while DisplayMachine is running, that
\* run is followed by one more.
TH_C21 ==
    /\ [][ /\ (nRun' # nRun) => Running
           /\ (Running' /\ ~ Running) => (DisplayFlag /\ ~ DisplayFlag')
           /\ (DisplayFlag /\ ~ DisplayFlag') => (Running' /\ ~ Running) ]_vars
    /\ [](nRun <= nRaise)
    /\ \A k \in 0..(MaxRunMs \div TimeBetweenDisplayUpdates) :
          (Running /\ DisplayFlag /\ nRun = k) ~> (nRun = k + 2)

\* C21 witness: DisplayFlag was raised again while the second run of
\* DisplayMachine was under way.
W_C21 ==
    /\ Running
    /\ DisplayFlag
    /\ nRun = 1
    /\ nRaise = 3

(***************************************************************************)
(* The filter coefficients                                                 *)
(***************************************************************************)
\* The fraction c limited to [0, 1] (den > 0).
Clamped(c) ==
    IF c.num < 0 THEN [ num |-> 0, den |-> 1 ]
    ELSE IF c.num > c.den THEN [ num |-> 1, den |-> 1 ]
    ELSE c

\* Two fractions of the same value.
SameValue(a, b) == a.num * b.den = b.num * a.den

\* C22 as stated: once setup has run, each coefficient equals
\* TimeBetweenInterrupts over its time constant limited to [0, 1], and neither
\* coefficient is above 1.
CX_C22 ==
    pc # "setup" =>
        /\ SameValue(fAdcUpCoef, Clamped(Coef(Settings.MeterAvgTc)))
        /\ SameValue(fAdcDecayCoef, Clamped(Coef(Settings.MeterDecayTc)))
        /\ fAdcUpCoef.num <= fAdcUpCoef.den
        /\ fAdcDecayCoef.num <= fAdcDecayCoef.den

\* C23: once setup has run, at the end of every display tick fAdcUpCoef is
\* TimeBetweenInterrupts / Settings.MeterAvgTc and fAdcDecayCoef is
\* TimeBetweenInterrupts / Settings.MeterDecayTc for the Settings of that
\* moment.
TH_C23 ==
    pc # "setup" =>
        /\ fAdcUpCoef = Coef(Settings.MeterAvgTc)
        /\ fAdcDecayCoef = Coef(Settings.MeterDecayTc)

\* C23 witness: the MeterAvgTc page has just changed the time constant loaded
\* by setup, and fAdcUpCoef follows the new value.
W_C23 ==
    /\ Called = [ kind |-> "control", page |-> MeterAvgTcMode ]
    /\ ButtonPressed \in { UpButton, DownButton }
    /\ Settings.MeterAvgTc # Eeprom.MeterAvgTc
    /\ fAdcUpCoef = Coef(Settings.MeterAvgTc)
    /\ fAdcUpCoef # Coef(Eeprom.MeterAvgTc)

(***************************************************************************)
(* The analog inputs as the program reads them                             *)
(***************************************************************************)
\* setup(), the levels of the three analog pins recorded.
SetupRead ==
    \E pins \in StartupPins :
        SetupOn(pins) /\ AdcSeen' = [ AdcSeen EXCEPT !.pins = pins ]

\* A run of TimedService, the two analogRead results recorded.
TimedServiceRead ==
    \E fwd \in AdcReadings, rev \in AdcReadings :
        TimedServiceOn(fwd, rev) /\ AdcSeen' = [ AdcSeen EXCEPT !.fwd = fwd, !.rev = rev ]

NextAdc == SetupRead \/ TimedServiceRead \/ LoopPoll \/ LoopDisplay

\* The timer interrupt and the main loop, with the levels at the analog pins
\* on record.
SpecAdc == Init /\ [][NextAdc]_vars

\* C24 as stated: once TimedService has run, each channel's iAdc is the
\* integer analogRead returned for that channel's pin on the last run.
CX_C24 ==
    millis > StartupDelay =>
        /\ PwrFwd.iAdc = AdcSeen.fwd
        /\ PwrRev.iAdc = AdcSeen.rev

\* C25 as stated: once setup has run, each channel's offset voltage is the
\* voltage of the level its own pin stood at during setup, at all times.
CX_C25 ==
    pc # "setup" =>
        /\ OffsetVolt.Fwd = VoltsOfCount(AdcSeen.pins[FwdPin])
        /\ OffsetVolt.Rev = VoltsOfCount(AdcSeen.pins[RevPin])

(***************************************************************************)
(* The PWM outputs                                                         *)
(***************************************************************************)
RECURSIVE Pow2(_)
Pow2(k) == IF k <= 0 THEN 1 ELSE 2 * Pow2(k - 1)

RECURSIVE Log2Floor(_)
Log2Floor(x) == IF x < 2 THEN 0 ELSE 1 + Log2Floor(x \div 2)

\* log(x) of the C library, the natural logarithm, in thousandths, for an
\* integer x >= 1: the whole powers of two exactly, the rest by a straight
\* line between them (within 0.06 of the logarithm).
LnMilli(x) ==
    LET k == Log2Floor(x)
        drop == IF k > 20 THEN k - 20 ELSE 0
        m == ((x \div Pow2(drop)) * 1000) \div Pow2(k - drop)
    IN k * 693 + ((m - 1000) * 693) \div 1000

\* int dBm = 10 * log(fWatts) + 30.0 for fWatts of mW milliwatts (below one
\* milliwatt the result is under -39 and taken at mW = 1).
Dbm(mW) ==
    LET x == IF mW < 1 THEN 1 ELSE mW IN
    TruncDiv(10 * LnMilli(x) - 69078 + 30000, 1000)

\* DisplayMeter: pwm = (int) dBm * 4, limited to 0..255, the analogWrite value.
MeterDuty(mW) ==
    LET pwm == Dbm(mW) * 4 IN
    IF pwm < 0 THEN 0 ELSE IF pwm > 255 THEN 255 ELSE pwm

\* A value as a 16-bit int holds it.
Int16(x) == ((x + 32768) % 65536) - 32768

\* analogWrite(BacklightPin, (int)(Settings.BacklightLevel * 255) / 100): the
\* values the call may be handed.  A product beyond the 16-bit int has no
\* defined conversion: it may wrap or stop at the largest int.
BacklightDuties(S) ==
    LET x == TruncDiv(S.BacklightLevel * 255, Scale) IN
    IF x \in -32768..32767 THEN { TruncDiv(x, 100) }
    ELSE { TruncDiv(Int16(x), 100), TruncDiv(32767, 100) }

\* C26 as stated: the duty cycles DisplayMeter hands to analogWrite at the end
\* of a PowerDisplay tick, and the one setup and the backlight page hand to
\* it, are within 0..255.
CX_C26 ==
    /\ (pc = "poll" /\ Called.kind = "power") =>
          \A d \in WattsDefs :
              /\ MeterDuty(PwrFwd.fWatts[d]) \in 0..255
              /\ MeterDuty(PwrRev.fWatts[d]) \in 0..255
    /\ (pc # "setup" /\ (Called.kind = "none"
                           \/ Called = [ kind |-> "control", page |-> BacklightMode ])) =>
          BacklightDuties(Settings) \subseteq 0..255

(***************************************************************************)
(* drawbar                                                                 *)
(***************************************************************************)
RowPerDisplay == 2
CharPerRow == 16
PixelPerChar == 6

\* The glyph codes drawbar writes besides the partial cell's bar % PixelPerChar.
FullCell == 5
BlankCell == 0

\* The glyph codes drawbar(StartCharLoc, row, ana) writes, in order, the first
\* at column StartCharLoc of the row and each next one column further right.
drawbar(StartCharLoc, ana) ==
    LET a == IF ana < 0 THEN 0 ELSE IF ana > 1023 THEN 1023 ELSE ana
        bar == (a * (CharPerRow - StartCharLoc) * PixelPerChar) \div 1023
        full == bar \div PixelPerChar
        last == IF full < CharPerRow THEN CharPerRow ELSE full
    IN [ i \in 1..last |->
           IF i <= full THEN FullCell
           ELSE IF i = full + 1 THEN bar % PixelPerChar
           ELSE BlankCell ]

\* Start columns and analog values drawbar is called with; DisplayPower calls
\* it with StartCharLoc 6 and (int)(fWatts / MeterScale * 1023).  The values
\* step through the scale about one bar pixel at a time and pass both ends.
BarStarts == { 0, 6, 15 }
BarValues == { -2, -1, 1023, 1024, 1025 } \cup { 17 * k : k \in 0..60 }

\* A call of drawbar.
DrawBar ==
    /\ \E StartCharLoc \in BarStarts, row \in 0..(RowPerDisplay - 1), ana \in BarValues :
          Bar' = [ StartCharLoc |-> StartCharLoc, row |-> row, ana |-> ana,
                   cells |-> drawbar(StartCharLoc, ana) ]
    /\ UNCHANGED << pc, menuVars, isrVars, calcVars, OffsetVolt, nRaise, nRun, AdcSeen,
                    auxVars >>

NextBar == DrawBar

\* The power display drawing its bars.
SpecBar == InitWatts /\ [][NextBar]_vars

\* The column of the i-th cell of the last call.
BarColumn(i) == Bar.StartCharLoc + i - 1

\* C27 as stated: a call of drawbar writes exactly 16 - start cells, all in
\* columns start..15 of its row: full cells first, then at most one partial
\* cell, then blanks, every glyph code within 0..6.
CX_C27 ==
    Bar.cells # << >> =>
        /\ Len(Bar.cells) = CharPerRow - Bar.StartCharLoc
        /\ \A i \in 1..Len(Bar.cells) :
              /\ BarColumn(i) \in Bar.StartCharLoc..(CharPerRow - 1)
              /\ Bar.cells[i] \in 0..6
        /\ \E n \in 0..Len(Bar.cells) :
              /\ \A i \in 1..n : Bar.cells[i] = FullCell
              /\ \A i \in (n + 2)..Len(Bar.cells) : Bar.cells[i] = BlankCell

(***************************************************************************)
(* The range of the filter                                                 *)
(***************************************************************************)
\* x lies between a and b, the ends included.
Between(x, a, b) == (a <= x /\ x <= b) \/ (b <= x /\ x <= a)

\* The filter tick from old to new left the average of the channel between
\* the previous average and the raw sample, and unchanged when they are equal.
NoOvershoot(old, new) ==
    /\ Between(new.iAdcAvg, old.iAdcAvg, new.iAdc)
    /\ new.iAdc = old.iAdcAvg => new.iAdcAvg = old.iAdcAvg

\* C28 as stated: after a filter tick the new average of each channel lies
\* between its previous average and the raw sample of that tick, whichever
\* branch was taken, and is unchanged when the two are equal.
CX_C28 == [][ NoOvershoot(PwrFwd, PwrFwd') /\ NoOvershoot(PwrRev, PwrRev') ]_vars

\* C29 as stated: with raw samples in [0, 1023] the average of each channel is
\* within [0, 1023] in every reachable state.
CX_C29 ==
    /\ PwrFwd.iAdcAvg \in 0..AdcMaxCount
    /\ PwrRev.iAdcAvg \in 0..AdcMaxCount

\* C30: ModeIndex, the index into the eleven-entry table fControl, is within
\* [0, 10] in every reachable state.
TH_C30 == ModeIndex \in 0..10

\* C30 witness: Right was pressed on the last page, index 10, and ModeIndex
\* wrapped to 0.
W_C30 ==
    /\ DisplayState = ControlMode
    /\ ButtonPressed = RightButton
    /\ ButtonPressTime = 0
    /\ ModeIndex = ModeIndexMin
    /\ Called = [ kind |-> "control", page |-> FwdMode ]

\* C31 as stated: every write of Settings to the EEPROM leaves each field
\* whose stored value it changes, the fields edited since it was last stored,
\* within the field's [Min, Max].
CX_C31 ==
    [][ \A f \in Fields :
          Eeprom'[f] # Eeprom[f] => InRange(f, Eeprom'[f]) ]_vars

\* C32 as stated: when the MeterMode page or the MeterType page has run, the
\* index it rendered its name with is a named entry of its table: within
\* [0, 3] for MeterModes and within [0, 2] for MeterTypes.
CX_C32 ==
    /\ Called = [ kind |-> "control", page |-> MeterMode ]
          => Settings.MeterModeIndex \in 0..3
    /\ Called = [ kind |-> "control", page |-> MeterTypeMode ]
          => Settings.MeterTypeIndex \in 0..2

(***************************************************************************)
(* The assignment to a filter coefficient against the timer interrupt      *)
(***************************************************************************)
\* A positive fraction n/d scaled by 2^e into [1, 2).
RECURSIVE Normalised(_, _, _)
Normalised(n, d, e) ==
    IF n >= 2 * d THEN Normalised(n, 2 * d, e + 1)
    ELSE IF n < d THEN Normalised(2 * n, d, e - 1)
    ELSE [ n |-> n, d |-> d, e |-> e ]

\* The first k binary digits of r/d, 0 <= r < d.
RECURSIVE Digits(_, _, _)
Digits(r, d, k) ==
    IF k = 0 THEN 0
    ELSE IF 2 * r >= d THEN Pow2(k - 1) + Digits(2 * r - d, d, k - 1)
    ELSE Digits(2 * r, d, k - 1)

\* The 32 bits of the float that holds the positive coefficient c: sign 0,
\* eight bits of exponent, 23 bits of fraction (truncated).
FloatBits(c) ==
    LET x == Normalised(c.num, c.den, 0) IN
    (x.e + 127) * Pow2(23) + Digits(x.n - x.d, x.d, 23)

\* The float of the given bits as a fraction, to 1/4096 (exponent below 135).
FloatValue(bits) ==
    LET e == (bits \div Pow2(23)) - 127
        m == Pow2(23) + (bits % Pow2(23))
    IN [ num |-> m \div Pow2(11 - e), den |-> 4096 ]

\* Byte i of a 32-bit word, byte 0 the least significant and at the lowest
\* address.
Byte(bits, i) == (bits \div Pow2(8 * i)) % 256

\* The word in memory when the first `stored` bytes of new have been stored
\* over old, from the lowest address up or from the highest down.
Mixed(old, new, stored, order) ==
    LET written(i) == IF order = "up" THEN i < stored ELSE i >= 4 - stored
        byte(i) == IF written(i) THEN Byte(new, i) ELSE Byte(old, i)
    IN byte(0) + 256 * byte(1) + 65536 * byte(2) + 16777216 * byte(3)

\* Time constants of the two pages, in ms, from which MaxAdjust + 1 Down
\* presses stay above 0.
CoefTcs == { 8, 1000 }

\* The state on the MeterAvgTc or the MeterDecayTc page, reached with Left from
\* the first page, the filter at rest on a
\* steady input.
InitCoef ==
    /\ pc = "poll"
    /\ \E a \in CoefTcs, d \in CoefTcs :
          /\ Settings = [ GoodRecord EXCEPT !.MeterAvgTc = a * Scale,
                                            !.MeterDecayTc = d * Scale ]
          /\ fAdcUpCoef = Coef(a * Scale)
          /\ fAdcDecayCoef = Coef(d * Scale)
    /\ Eeprom = Settings
    /\ DisplayState = ControlMode
    /\ ModeIndex \in { MeterAvgTcMode, MeterDecayTcMode }
    /\ ButtonPressed = LeftButton
    /\ ButtonPressTime = 0
    /\ oldkey = DecodeKey(500)
    /\ DisplayTimeCounter = 0
    /\ DisplayFlag = FALSE
    /\ millis = StartupDelay
    /\ PwrFwd = [ iAdc |-> 512, iAdcAvg |-> 512, fVoltsAvg |-> 0,
                  fWatts |-> [ d \in WattsDefs |-> 0 ] ]
    /\ PwrRev = PwrFwd
    /\ EepromWrites = 0
    /\ Called = [ kind |-> "control", page |-> ModeIndex ]
    /\ Uses = ControlUses(ModeIndex, Settings)
    /\ TicksSinceFlag = 0
    /\ nAdjust = 0
    /\ IntEnabled = TRUE
    /\ iAdcLocalAvg = 0
    /\ nStep = 0
    /\ OffsetVolt = [ ch \in { "Fwd", "Rev" } |-> OffsetMilliVolts ]
    /\ nRaise = 0
    /\ nRun = 0
    /\ AdcSeen = [ pins |-> [ p \in AnalogPins |-> 0 ], fwd |-> 0, rev |-> 0 ]
    /\ Bar = [ StartCharLoc |-> 0, row |-> 0, ana |-> 0, cells |-> << >> ]
    /\ CoefWrite = NoCoefWrite
    /\ CoefUsed = NoCoefUsed
    /\ Twin = NoTwin
    /\ Smooth = [ ch \in { "Fwd", "Rev" } |-> [ DisplayNow |-> 0, DisplayTime |-> 0 ] ]

\* The coefficient a time-constant page assigns, by name.
CoefOf(target) == IF target = "Up" THEN fAdcUpCoef ELSE fAdcDecayCoef

\* A run of DisplayMachine on a time-constant page with Up or Down, up to the
\* assignment of the coefficient at the end of the page (lines 833, 879).
CoefAssign ==
    \E adc_key_in \in { 125, 300 }, order \in { "up", "down" } :
        LET rb == ReadButton(adc_key_in)
            S == fControl(ModeIndex, Settings, rb.pressed, rb.time)
            target == IF ModeIndex = MeterAvgTcMode THEN "Up" ELSE "Decay"
            tc == IF ModeIndex = MeterAvgTcMode THEN S.MeterAvgTc ELSE S.MeterDecayTc
        IN
        /\ pc = "poll"
        /\ InBounds(DecodeKey(adc_key_in), "edit")
        /\ nAdjust' = nAdjust + 1
        /\ oldkey' = rb.oldkey
        /\ ButtonPressed' = rb.pressed
        /\ ButtonPressTime' = rb.time
        /\ Settings' = S
        /\ Called' = [ kind |-> "control", page |-> ModeIndex ]
        /\ Uses' = ControlUses(ModeIndex, S)
        /\ EepromWrites' = 0
        /\ CoefWrite' = [ target |-> target, old |-> FloatBits(CoefOf(target)),
                          new |-> FloatBits(Coef(tc)), stored |-> 0, order |-> order ]
        /\ pc' = "store"
        /\ UNCHANGED << DisplayState, ModeIndex, Eeprom, fAdcUpCoef, fAdcDecayCoef,
                        isrVars, calcVars, OffsetVolt, nRaise, nRun, AdcSeen, Bar,
                        CoefUsed, Twin, Smooth >>

\* The four bytes of the float are stored one instruction at a time, with
\* interrupts enabled.
CoefStoreByte ==
    LET w == [ CoefWrite EXCEPT !.stored = @ + 1 ]
        tc == IF w.target = "Up" THEN Settings.MeterAvgTc ELSE Settings.MeterDecayTc
        c == IF w.stored = 4 THEN Coef(tc)
             ELSE FloatValue(Mixed(w.old, w.new, w.stored, w.order))
    IN
    /\ pc = "store"
    /\ pc' = IF w.stored = 4 THEN "poll" ELSE "store"
    /\ CoefWrite' = IF w.stored = 4 THEN NoCoefWrite ELSE w
    /\ IF w.target = "Up" THEN fAdcUpCoef' = c /\ UNCHANGED fAdcDecayCoef
                          ELSE fAdcDecayCoef' = c /\ UNCHANGED fAdcUpCoef
    /\ UNCHANGED << Settings, DisplayState, ModeIndex, ButtonPressed, ButtonPressTime,
                    oldkey, Eeprom, EepromWrites, Called, Uses, nAdjust,
                    isrVars, calcVars, OffsetVolt, nRaise, nRun, AdcSeen, Bar,
                    CoefUsed, Twin, Smooth >>

\* The bytes the filter reads for a coefficient, and the bytes before and
\* after the assignment if one is under way on it.
CoefRead(name) ==
    IF CoefWrite.target = name
      THEN [ bits |-> Mixed(CoefWrite.old, CoefWrite.new, CoefWrite.stored,
                            CoefWrite.order),
             old |-> CoefWrite.old, new |-> CoefWrite.new ]
      ELSE [ bits |-> FloatBits(CoefOf(name)), old |-> FloatBits(CoefOf(name)),
             new |-> FloatBits(CoefOf(name)) ]

\* A run of TimedService: the filter statements of UpdateAnalogInputs on the
\* raw sample, both channels alike, with the coefficients as memory holds them.
CoefTick ==
    \E raw \in RawInputs :
        /\ millis < StartupDelay + MaxCoefTicks * TimeBetweenInterrupts
        /\ millis' = millis + TimeBetweenInterrupts
        /\ PwrFwd' = [ PwrFwd EXCEPT
                         !.iAdc = raw,
                         !.iAdcAvg = FilterStep(@, raw, fAdcUpCoef, fAdcDecayCoef) ]
        /\ PwrRev' = [ PwrRev EXCEPT
                         !.iAdc = raw,
                         !.iAdcAvg = FilterStep(@, raw, fAdcUpCoef, fAdcDecayCoef) ]
        /\ CoefUsed' = IF raw > PwrFwd.iAdcAvg THEN CoefRead("Up")
                       ELSE IF raw < PwrFwd.iAdcAvg THEN CoefRead("Decay")
                       ELSE CoefUsed
        /\ UNCHANGED << pc, menuVars, DisplayTimeCounter, DisplayFlag, TicksSinceFlag,
                        calcVars, OffsetVolt, nRaise, nRun, AdcSeen, Bar,
                        CoefWrite, Twin, Smooth >>

NextCoef == CoefAssign \/ CoefStoreByte \/ CoefTick

\* A time-constant page editing its coefficient while the timer runs the filter.
SpecCoef == InitCoef /\ [][NextCoef]_vars

\* C33 as stated: the coefficient a filter tick reads is the one before or the
\* one after the assignment of the main loop, never a mix of their bytes.
CX_C33 == CoefUsed.bits \in { CoefUsed.old, CoefUsed.new }

(***************************************************************************)
(* Frame conditions of the display state machine                           *)
(***************************************************************************)
\* The tick on which no button has been decoded for ControlTimeout ms while
\* in ControlMode.
TimeoutTick ==
    /\ DisplayState = ControlMode
    /\ ButtonPressed' = NoButton /\ ButtonPressTime' = ControlTimeout

\* C34: DisplayState changes only on a display tick that decodes Select at
\* ButtonPressTime 0, which always switches to the other mode, or on the
\* ControlMode tick that decodes no button at ButtonPressTime 5000, which
\* switches to PowerMode; every other step, a tick with Select still held
\* after ControlMode was entered included, leaves DisplayState as it is.
TH_C34 ==
    [][ /\ (pc = "poll" /\ SelectEdge) =>
              DisplayState' = (IF DisplayState = PowerMode THEN ControlMode
                               ELSE PowerMode)
        /\ (pc = "poll" /\ TimeoutTick) => DisplayState' = PowerMode
        /\ ~(pc = "poll" /\ (SelectEdge \/ TimeoutTick)) =>
              DisplayState' = DisplayState ]_vars

\* C34 witness: ControlMode with Select still held two ticks after the press
\* that entered it.
W_C34 ==
    /\ DisplayState = ControlMode
    /\ ButtonPressed = SelectButton
    /\ ButtonPressTime = 2 * TimeBetweenDisplayUpdates

\* The pages on which a press of Up or Down changes the value on its leading
\* edge.
EditedPages == { MeterMode, MeterTypeMode, MeterAvgTcMode, MeterDecayTcMode }

\* The state right after the first Up or Down press on one of these pages, the
\* EEPROM holding GoodRecord: setup, Select, Left or Right to the page, the
\* press.
InitEdited ==
    /\ pc = "poll"
    /\ Eeprom = GoodRecord
    /\ DisplayState = ControlMode
    /\ ModeIndex \in EditedPages
    /\ \E adc_key_in \in { 125, 300 } :
          /\ oldkey = DecodeKey(adc_key_in)
          /\ ButtonPressed = ButtonOfKey(oldkey)
          /\ Settings = fControl(ModeIndex, GoodRecord, ButtonPressed, 0)
    /\ ButtonPressTime = 0
    /\ fAdcUpCoef = Coef(Settings.MeterAvgTc)
    /\ fAdcDecayCoef = Coef(Settings.MeterDecayTc)
    /\ DisplayTimeCounter = 0
    /\ DisplayFlag = FALSE
    /\ millis = StartupDelay
    /\ PwrFwd = [ iAdc |-> 0, iAdcAvg |-> 0, fVoltsAvg |-> 0,
                  fWatts |-> [ d \in WattsDefs |-> 0 ] ]
    /\ PwrRev = PwrFwd
    /\ IntEnabled = TRUE
    /\ iAdcLocalAvg = 0
    /\ nStep = 0
    /\ EepromWrites = 0
    /\ Called = [ kind |-> "control", page |-> ModeIndex ]
    /\ Uses = ControlUses(ModeIndex, Settings)
    /\ TicksSinceFlag = 0
    /\ nAdjust = 1
    /\ OffsetVolt = [ ch \in { "Fwd", "Rev" } |-> OffsetMilliVolts ]
    /\ nRaise = 0
    /\ nRun = 0
    /\ AdcSeen = [ pins |-> [ p \in AnalogPins |-> 0 ], fwd |-> 0, rev |-> 0 ]
    /\ Bar = [ StartCharLoc |-> 0, row |-> 0, ana |-> 0, cells |-> << >> ]
    /\ CoefWrite = NoCoefWrite
    /\ CoefUsed = NoCoefUsed
    /\ Twin = NoTwin
    /\ Smooth = [ ch \in { "Fwd", "Rev" } |-> [ DisplayNow |-> 0, DisplayTime |-> 0 ] ]

\* The display state machine from an edited, unsaved value on: the user
\* navigates, presses Select or leaves the buttons alone.
SpecTimeout == InitEdited /\ [][IdleTick]_vars

\* C35: the timeout tick writes nothing to the EEPROM and leaves Settings as
\* the edits made it, not as the EEPROM holds it; what a Select press in
\* ControlMode stores afterwards is Settings, the edits included.
TH_C35 ==
    [][ pc = "poll" =>
          /\ TimeoutTick =>
                (Eeprom' = Eeprom /\ EepromWrites' = 0 /\ Settings' = Settings)
          /\ (DisplayState = ControlMode /\ SelectEdge) => Eeprom' = Settings
      ]_vars

\* C35 witness: PowerMode was entered by the timeout and the edited value in
\* Settings differs from the stored one.
W_C35 ==
    /\ DisplayState = PowerMode
    /\ ButtonPressed = NoButton /\ ButtonPressTime = ControlTimeout
    /\ Called.kind = "control"
    /\ EepromWrites = 0
    /\ Settings # Eeprom

\* C36: ModeIndex changes only on a ControlMode tick that decodes Left or
\* Right at ButtonPressTime 0, and then by one page with wrap-around; a tick
\* with Left or Right held, with Up, Down, Select or no button, and every tick
\* in PowerMode leave it as it is, so a held Left or Right moves one page.
TH_C36 ==
    [][ LET edge(b) == /\ pc = "poll" /\ DisplayState = ControlMode
                       /\ ButtonPressed' = b /\ ButtonPressTime' = 0
        IN
        /\ edge(LeftButton) =>
              ModeIndex' = (IF ModeIndex > ModeIndexMin THEN ModeIndex - 1
                            ELSE ModeIndexMax)
        /\ edge(RightButton) =>
              ModeIndex' = (IF ModeIndex < ModeIndexMax THEN ModeIndex + 1
                            ELSE ModeIndexMin)
        /\ ~(edge(LeftButton) \/ edge(RightButton)) => ModeIndex' = ModeIndex
      ]_vars

\* C36 witness: Left is still held two ticks after it moved from the first
\* page to the last.
W_C36 ==
    /\ DisplayState = ControlMode
    /\ ButtonPressed = LeftButton
    /\ ButtonPressTime = 2 * TimeBetweenDisplayUpdates
    /\ ModeIndex = ModeIndexMax

(***************************************************************************)
(* Two runs side by side                                                   *)
(***************************************************************************)
\* Variant: the forward watts are computed with the reverse coupler gain.
Powered_Crossed(F, R, S) ==
    LET f == CalculateChannel(S.CouplerGainRevDB, OffsetVolt.Fwd, F.iAdcAvg)
        r == CalculateChannel(S.CouplerGainRevDB, OffsetVolt.Rev, R.iAdcAvg)
    IN [ Fwd |-> [ F EXCEPT !.fVoltsAvg = f.fVoltsAvg, !.fWatts = f.fWatts ],
         Rev |-> [ R EXCEPT !.fVoltsAvg = r.fVoltsAvg, !.fWatts = r.fWatts ] ]

\* CalculatePower as a function of the two channels and the Settings it is
\* run on.
Powered(F, R, S) ==
    LET f == CalculateChannel(S.CouplerGainFwdDB, OffsetVolt.Fwd, F.iAdcAvg)
        r == CalculateChannel(S.CouplerGainRevDB, OffsetVolt.Rev, R.iAdcAvg)
    IN [ Fwd |-> [ F EXCEPT !.fVoltsAvg = f.fVoltsAvg, !.fWatts = f.fWatts ],
         Rev |-> [ R EXCEPT !.fVoltsAvg = r.fVoltsAvg, !.fWatts = r.fWatts ] ]

\* The Settings of the second run: those of the first but for the settings of
\* the channel in which the runs differ.
TwinSettings(S, differs) ==
    IF differs = "Rev"
      THEN [ S EXCEPT !.CouplerGainRevDB = (-20) * Scale, !.LimitRev = 50 * Scale,
                      !.MeterScaleRev = 50 * Scale ]
      ELSE [ S EXCEPT !.CouplerGainFwdDB = (-50) * Scale, !.LimitFwd = 500 * Scale,
                      !.MeterScaleFwd = 500 * Scale ]

\* Two runs after setup() which differ in the settings of one channel.
InitPair ==
    /\ pc = "poll"
    /\ Settings = GoodRecord
    /\ Eeprom = Settings
    /\ DisplayState = PowerMode
    /\ ModeIndex = 0
    /\ ButtonPressed = NoButton
    /\ ButtonPressTime = 0
    /\ oldkey = 5
    /\ fAdcUpCoef = Coef(Settings.MeterAvgTc)
    /\ fAdcDecayCoef = Coef(Settings.MeterDecayTc)
    /\ DisplayTimeCounter = 0
    /\ DisplayFlag = FALSE
    /\ millis = StartupDelay
    /\ OffsetVolt = [ ch \in { "Fwd", "Rev" } |-> OffsetMilliVolts ]
    /\ PwrFwd = [ iAdc |-> 0, iAdcAvg |-> 0, fVoltsAvg |-> 0,
                  fWatts |-> [ d \in WattsDefs |-> 0 ] ]
    /\ PwrRev = PwrFwd
    /\ EepromWrites = 0
    /\ Called = [ kind |-> "none", page |-> -1 ]
    /\ Uses = SetupUses(Eeprom)
    /\ TicksSinceFlag = 0
    /\ nAdjust = 0
    /\ nRaise = 0
    /\ nRun = 0
    /\ AdcSeen = [ pins |-> [ p \in AnalogPins |-> 0 ], fwd |-> 0, rev |-> 0 ]
    /\ Bar = [ StartCharLoc |-> 0, row |-> 0, ana |-> 0, cells |-> << >> ]
    /\ CoefWrite = NoCoefWrite
    /\ CoefUsed = NoCoefUsed
    /\ \E differs \in { "Fwd", "Rev" } :
          Twin = [ differs |-> differs, Settings |-> TwinSettings(Settings, differs),
                   PwrFwd |-> PwrFwd, PwrRev |-> PwrRev,
                   adc |-> [ one |-> 0, two |-> 0 ] ]
    /\ Smooth = [ ch \in { "Fwd", "Rev" } |-> [ DisplayNow |-> 0, DisplayTime |-> 0 ] ]
    /\ IntEnabled = TRUE
    /\ iAdcLocalAvg = 0
    /\ nStep = 0

\* A run of TimedService in both runs: analogRead returns the same level on
\* the channel the runs share and any two levels on the other, which Twin.adc
\* records.
PairSample ==
    \E fwd \in AdcReadings, rev \in AdcReadings, other \in AdcReadings :
        LET fwd2 == IF Twin.differs = "Fwd" THEN other ELSE fwd
            rev2 == IF Twin.differs = "Rev" THEN other ELSE rev
            one == UpdatedInputs(PwrFwd, PwrRev, fwd, rev, millis')
            two == UpdatedInputs(Twin.PwrFwd, Twin.PwrRev, fwd2, rev2, millis')
        IN
        /\ millis < StartupDelay + MaxRunMs
        /\ millis' = millis + TimeBetweenInterrupts
        /\ PwrFwd' = one.Fwd
        /\ PwrRev' = one.Rev
        /\ Twin' = [ Twin EXCEPT
                       !.PwrFwd = two.Fwd, !.PwrRev = two.Rev,
                       !.adc = [ one |-> IF Twin.differs = "Fwd" THEN fwd ELSE rev,
                                 two |-> other ] ]
        /\ UNCHANGED << pc, menuVars, DisplayTimeCounter, DisplayFlag, TicksSinceFlag,
                        calcVars, OffsetVolt, nRaise, nRun, AdcSeen, Bar,
                        CoefWrite, CoefUsed, Smooth >>

\* A run of CalculatePower in both runs.
PairCalculate ==
    LET one == Powered(PwrFwd, PwrRev, Settings)
        two == Powered(Twin.PwrFwd, Twin.PwrRev, Twin.Settings)
    IN
    /\ PwrFwd' = one.Fwd
    /\ PwrRev' = one.Rev
    /\ Twin' = [ Twin EXCEPT !.PwrFwd = two.Fwd, !.PwrRev = two.Rev ]
    /\ iAdcLocalAvg' = PwrRev.iAdcAvg
    /\ UNCHANGED << pc, menuVars, DisplayTimeCounter, DisplayFlag, millis,
                    TicksSinceFlag, IntEnabled, nStep, OffsetVolt, nRaise, nRun,
                    AdcSeen, Bar, CoefWrite, CoefUsed, Smooth >>

NextPair == PairSample \/ PairCalculate

\* Two runs of the sampling and of CalculatePower, step by step together.
SpecPair == InitPair /\ [][NextPair]_vars

\* C37: two runs that differ only in the readings and the settings of the
\* reverse channel have the same raw sample, average, volts and watts of the
\* forward channel after every step, and two runs that differ only in the
\* forward channel the same values of the reverse channel.
TH_C37 ==
    /\ Twin.differs = "Rev" => Twin.PwrFwd = PwrFwd
    /\ Twin.differs = "Fwd" => Twin.PwrRev = PwrRev

\* C37 witness: the runs read different reverse levels and computed different
\* reverse watts, and the forward watts are not 0.
W_C37 ==
    /\ Twin.differs = "Rev"
    /\ Twin.adc.one # Twin.adc.two
    /\ \E d \in WattsDefs : Twin.PwrRev.fWatts[d] # PwrRev.fWatts[d]
    /\ \E d \in WattsDefs : PwrFwd.fWatts[d] > 0

(***************************************************************************)
(* Progress of the decay                                                   *)
(***************************************************************************)
\* The decay coefficient is above 0 and at most 1.
DecayInUnit == 0 < fAdcDecayCoef.num /\ fAdcDecayCoef.num <= fAdcDecayCoef.den

\* One tick's decay of a channel: at least one count down, not below the raw
\* sample.
DecayProgress(ch) ==
    ch'.iAdc < ch.iAdcAvg =>
        (ch'.iAdcAvg <= ch.iAdcAvg - 1 /\ ch'.iAdcAvg >= ch'.iAdc)

\* C38: with the decay coefficient in (0, 1], a tick whose raw sample is below
\* iAdcAvg lowers iAdcAvg by at least one count and not below the sample; so
\* once the raw input stays constant, an average above it reaches it exactly.
TH_C38 ==
    /\ [][ DecayInUnit => (DecayProgress(PwrFwd) /\ DecayProgress(PwrRev)) ]_vars
    /\ (DecayInUnit /\ nStep = MaxSteps /\ PwrFwd.iAdcAvg > PwrFwd.iAdc)
          ~> (PwrFwd.iAdcAvg = PwrFwd.iAdc)

\* C38 witness: with both time constants at 1000 ms, where the attack cannot
\* bring the average up to 512 from below, the decay has brought it down to a
\* constant raw input of 512 exactly.
W_C38 ==
    /\ fAdcUpCoef = Coef(1000 * Scale) /\ fAdcDecayCoef = Coef(1000 * Scale)
    /\ nStep = MaxSteps
    /\ PwrFwd.iAdc = 512
    /\ PwrFwd.iAdcAvg = 512

(***************************************************************************)
(* SmoothDisplay                                                           *)
(***************************************************************************)
\* const float DisplayDelay = 300.0, in W ms.
DisplayDelay == 300

\* abs(value - sig->DisplayNow) * sig->DisplayTime > DisplayDelay, the
\* difference delta in mW: the float product cannot overflow, and is not above
\* the delay when the time is 0 or below.
Exceeds(delta, time) == time > 0 /\ delta > (DisplayDelay * 1000) \div time

\* SmoothDisplay(sig, value), value in mW: the int DisplayTime has 16 bits and
\* the addition wraps beyond 32767.
SmoothDisplay(sig, value) ==
    LET time == Int16(sig.DisplayTime + TimeBetweenDisplayUpdates)
        delta == IF value >= sig.DisplayNow THEN value - sig.DisplayNow
                 ELSE sig.DisplayNow - value
    IN IF Exceeds(delta, time)
         THEN [ DisplayNow |-> value, DisplayTime |-> 0 ]
         ELSE [ DisplayNow |-> sig.DisplayNow, DisplayTime |-> time ]

\* Averages the filter has reached when DisplayPower runs: no signal, half
\* scale and full scale.
SmoothCounts == { 0, 512, 1023 }

\* The state after setup(), either definition of Watts linked.
InitSmooth ==
    /\ pc = "poll"
    /\ Settings = GoodRecord
    /\ Eeprom = Settings
    /\ DisplayState = PowerMode
    /\ ModeIndex = 0
    /\ ButtonPressed = NoButton
    /\ ButtonPressTime = 0
    /\ oldkey = -1
    /\ fAdcUpCoef = Coef(Settings.MeterAvgTc)
    /\ fAdcDecayCoef = Coef(Settings.MeterDecayTc)
    /\ DisplayTimeCounter = 0
    /\ DisplayFlag = FALSE
    /\ millis = StartupDelay
    /\ OffsetVolt = [ ch \in { "Fwd", "Rev" } |-> OffsetMilliVolts ]
    /\ PwrFwd = [ iAdc |-> 0, iAdcAvg |-> 0, fVoltsAvg |-> 0,
                  fWatts |-> [ d \in WattsDefs |-> 0 ] ]
    /\ PwrRev = PwrFwd
    /\ EepromWrites = 0
    /\ Called = [ kind |-> "none", page |-> -1 ]
    /\ Uses = SetupUses(Eeprom)
    /\ TicksSinceFlag = 0
    /\ nAdjust = 0
    /\ nRaise = 0
    /\ nRun = 0
    /\ AdcSeen = [ pins |-> [ p \in AnalogPins |-> 0 ], fwd |-> 0, rev |-> 0 ]
    /\ Bar = [ StartCharLoc |-> 0, row |-> 0, ana |-> 0, cells |-> << >> ]
    /\ CoefWrite = NoCoefWrite
    /\ CoefUsed = NoCoefUsed
    /\ Twin = NoTwin
    /\ \E d \in WattsDefs :
          Smooth = [ Fwd |-> [ DisplayNow |-> 0, DisplayTime |-> 0 ],
                     Rev |-> [ DisplayNow |-> 0, DisplayTime |-> 0 ],
                     def |-> d ]
    /\ IntEnabled = TRUE
    /\ iAdcLocalAvg = 0
    /\ nStep = 0

\* A PowerMode display tick, the timer having brought both averages to n:
\* DisplayPower runs CalculatePower and SmoothDisplay on both channels.  The
\* run is followed up to the first tick that takes a DisplayTime below 0.
DisplayPower ==
    \E n \in SmoothCounts :
        LET F == Calculated(PwrFwd, Settings.CouplerGainFwdDB, OffsetVolt.Fwd, n)
            R == Calculated(PwrRev, Settings.CouplerGainRevDB, OffsetVolt.Rev, n)
        IN
        /\ Smooth.Fwd.DisplayTime >= 0 /\ Smooth.Rev.DisplayTime >= 0
        /\ PwrFwd' = F
        /\ PwrRev' = R
        /\ iAdcLocalAvg' = n
        /\ Smooth' = [ Smooth EXCEPT
                         !.Fwd = SmoothDisplay(@, F.fWatts[Smooth.def]),
                         !.Rev = SmoothDisplay(@, R.fWatts[Smooth.def]) ]
        /\ Called' = [ kind |-> "power", page |-> -1 ]
        /\ Uses' = ProcessPowerDisplayUses(Settings)
        /\ UNCHANGED << pc, Eeprom, Settings, DisplayState, ModeIndex, ButtonPressed,
                        ButtonPressTime, oldkey, fAdcUpCoef, fAdcDecayCoef,
                        EepromWrites, nAdjust, DisplayTimeCounter, DisplayFlag,
                        millis, TicksSinceFlag, IntEnabled, nStep, OffsetVolt,
                        nRaise, nRun, AdcSeen, Bar, CoefWrite, CoefUsed, Twin >>

NextSmooth == DisplayPower

\* PowerMode display ticks, one after the other.
SpecSmooth == InitSmooth /\ [][NextSmooth]_vars

\* C39 as stated: the DisplayTime of either channel never leaves the range of
\* the 16-bit int: every display tick leaves it at 0 or at the sum of its value
\* and TimeBetweenDisplayUpdates.
CX_C39 ==
    [][ \A ch \in { "Fwd", "Rev" } :
          Smooth'[ch].DisplayTime
            \in { 0, Smooth[ch].DisplayTime + TimeBetweenDisplayUpdates } ]_vars

=============================================================================
